---- MODULE Spec2Model ----
(***************************************************************************)
(* Model of the Jira MCP server's tool dispatcher (handleCallTool), its    *)
(* yup schemas and credential resolution, and the tool handlers with the   *)
(* upstream (axios) calls they issue.                                      *)
(*                                                                         *)
(* Strings whose characters matter (credentials, keys, display names) are  *)
(* sequences of character codes, so trim(), toLowerCase() and the regular  *)
(* expressions of the schemas are computed, not assumed.  The JavaScript   *)
(* value undefined is the one-element sequence Undef.                      *)
(***************************************************************************)
EXTENDS Integers, Sequences, FiniteSets, TLC

\* ------------------------------------------------------------------ bounds

\* Largest number of actors in one role-detail response.
MaxActors == 2

\* ----------------------------------------------------------------- strings

Undef == <<-1>>

\* "a".."z", "A".."Z", "0".."9", " ", "_", "-"
Upper == 65..90
Lower == 97..122
Digit == 48..57

\* JavaScript truthiness of a string-or-undefined value.
Truthy(v) == v # Undef /\ v # <<>>

\* JavaScript a || b.
OrElse(a, b) == IF Truthy(a) THEN a ELSE b

RECURSIVE TrimStart(_)
TrimStart(s) ==
    IF s = <<>> THEN <<>>
    ELSE IF Head(s) = 32 THEN TrimStart(Tail(s)) ELSE s

RECURSIVE TrimEnd(_)
TrimEnd(s) ==
    IF s = <<>> THEN <<>>
    ELSE IF s[Len(s)] = 32 THEN TrimEnd(SubSeq(s, 1, Len(s) - 1)) ELSE s

\* String.prototype.trim
Trim(s) == TrimEnd(TrimStart(s))

\* String.prototype.toLowerCase
toLowerCase(s) == [i \in DOMAIN s |-> IF s[i] \in Upper THEN s[i] + 32 ELSE s[i]]

\* /^[A-Z][A-Z0-9_]+$/
MatchesProjectKey(s) ==
    /\ Len(s) >= 2
    /\ s[1] \in Upper
    /\ \A i \in 2..Len(s) : s[i] \in Upper \cup Digit \cup {95}

\* /^[A-Z][A-Z0-9_]+-[1-9][0-9]*$/
MatchesIssueKey(s) ==
    \E h \in 1..Len(s) :
        /\ s[h] = 45
        /\ MatchesProjectKey(SubSeq(s, 1, h - 1))
        /\ h + 1 <= Len(s)
        /\ s[h + 1] \in 49..57
        /\ \A i \in (h + 2)..Len(s) : s[i] \in Digit

\* /^\d+$/
MatchesNumeric(s) == Len(s) >= 1 /\ \A i \in 1..Len(s) : s[i] \in Digit

\* ------------------------------------------------------------ auth helpers

CredFields == {"jiraHost", "loginName", "loginToken"}

\* "Basic " + base64(loginName ":" loginToken); base64 is one-to-one, so the
\* header is represented by the pair it encodes.
createAuthHeader(loginName, loginToken) ==
    [scheme |-> "Basic", loginName |-> loginName, loginToken |-> loginToken]

\* TRUE when validateCredentials returns, FALSE when it throws.
validateCredentials(jiraHost, loginName, loginToken) ==
    Truthy(jiraHost) /\ Truthy(loginName) /\ Truthy(loginToken)

HttpsPrefix == <<104, 116, 116, 112, 115, 58, 47, 47>>
HttpPrefix == <<104, 116, 116, 112, 58, 47, 47>>

StartsWithNoCase(s, p) ==
    Len(s) >= Len(p) /\ toLowerCase(SubSeq(s, 1, Len(p))) = p

normalizeJiraHost(jiraHost) ==
    IF StartsWithNoCase(jiraHost, HttpsPrefix) \/ StartsWithNoCase(jiraHost, HttpPrefix)
    THEN jiraHost
    ELSE HttpsPrefix \o jiraHost

\* ------------------------------------------------------------------ schemas

\* 'active', 'future', 'closed', 'all'
StateActive == <<97, 99, 116, 105, 118, 101>>
StateFuture == <<102, 117, 116, 117, 114, 101>>
StateClosed == <<99, 108, 111, 115, 101, 100>>
StateAll == <<97, 108, 108>>
SprintStates == {StateActive, StateFuture, StateClosed, StateAll}

\* 'Task', 'Bug', 'Story', 'Epic'
TypeTask == <<84, 97, 115, 107>>
IssueTypes == {TypeTask, <<66, 117, 103>>, <<83, 116, 111, 114, 121>>, <<69, 112, 105, 99>>}

\* The description argument of jira_create_issue: absent, a (non-JSON)
\* string, or an object with the ADF fields type, version and content;
\* version 0 and content -1 stand for a missing field.
NoDescription == [kind |-> "undefined", type |-> "undefined", version |-> 0, content |-> -1]

\* The argument mapping with every field absent.
NoArguments ==
    [jiraHost |-> Undef, loginName |-> Undef, loginToken |-> Undef,
     projectKey |-> Undef, issueKey |-> Undef, userName |-> Undef,
     assigneeName |-> Undef, reporterName |-> Undef, summary |-> Undef,
     description |-> NoDescription, issueType |-> Undef, sprintId |-> Undef,
     boardId |-> Undef, state |-> Undef]

\* The defaults of JiraApiRequestSchema: process.env.X || "", read when the
\* module is loaded; the environment does not change afterwards.
\* Variant: a placeholder host or login stands in when the environment has none.
SchemaDefaultPlaceholder(e, f) == OrElse(e[f], <<120>>)

SchemaDefault(e, f) == OrElse(e[f], <<>>)

\* The test of each credential field: !!value && value.trim().length > 0
CredentialTest(value) == Truthy(value) /\ Len(Trim(value)) > 0

CredentialMessage(f) ==
    CASE f = "jiraHost" -> "Jira host is required and must be a valid domain (e.g., \"company.atlassian.net\")"
      [] f = "loginName" -> "Login name is required for Jira 8.1.0 authentication"
      [] f = "loginToken" -> "Login token is required for Jira 8.1.0 authentication"

\* Variant: a credential given as an empty or blank string takes the
\* schema default as an absent one does.
SchemaCastBlankAsAbsent(schema, e, a) ==
    [a EXCEPT
        !.jiraHost = IF ~CredentialTest(@) THEN SchemaDefault(e, "jiraHost") ELSE @,
        !.loginName = IF ~CredentialTest(@) THEN SchemaDefault(e, "loginName") ELSE @,
        !.loginToken = IF ~CredentialTest(@) THEN SchemaDefault(e, "loginToken") ELSE @,
        !.issueType = IF @ = Undef /\ schema = "JiraCreateIssueRequestSchema" THEN TypeTask ELSE @,
        !.state = IF @ = Undef /\ schema = "JiraSprintRequestSchema" THEN StateActive ELSE @]

\* yup's cast: an absent field takes its schema default.
SchemaCast(schema, e, a) ==
    [a EXCEPT
        !.jiraHost = IF @ = Undef THEN SchemaDefault(e, "jiraHost") ELSE @,
        !.loginName = IF @ = Undef THEN SchemaDefault(e, "loginName") ELSE @,
        !.loginToken = IF @ = Undef THEN SchemaDefault(e, "loginToken") ELSE @,
        !.issueType = IF @ = Undef /\ schema = "JiraCreateIssueRequestSchema" THEN TypeTask ELSE @,
        !.state = IF @ = Undef /\ schema = "JiraSprintRequestSchema" THEN StateActive ELSE @]

\* The messages of the failing tests of JiraApiRequestSchema on a cast value.
JiraApiRequestSchema(v) ==
    {CredentialMessage(f) : f \in {g \in CredFields : ~CredentialTest(v[g])}}

RequiredProjectKey(v) ==
    (IF ~Truthy(v.projectKey) THEN {"Project key is required"} ELSE {})
    \cup (IF v.projectKey # Undef /\ ~MatchesProjectKey(v.projectKey)
          THEN {"Invalid project key format. Only uppercase letters, numbers, and underscores are allowed"}
          ELSE {})

JiraIssueRequestSchema(v) ==
    JiraApiRequestSchema(v)
    \cup (IF ~Truthy(v.issueKey) THEN {"Issue key is required"} ELSE {})
    \cup (IF v.issueKey # Undef /\ ~MatchesIssueKey(v.issueKey)
          THEN {"Invalid issue key format. The correct format is PROJECT-123"} ELSE {})

JiraSearchIssuesRequestSchema(v) ==
    JiraApiRequestSchema(v) \cup RequiredProjectKey(v)
    \cup (IF v.assigneeName # Undef /\ Len(v.assigneeName) < 2
          THEN {"Assignee name must be at least 2 characters long"} ELSE {})

JiraProjectMembersRequestSchema(v) ==
    JiraApiRequestSchema(v) \cup RequiredProjectKey(v)

JiraCheckUserIssuesRequestSchema(v) ==
    JiraApiRequestSchema(v) \cup RequiredProjectKey(v)
    \cup (IF ~Truthy(v.userName) THEN {"Username is required"} ELSE {})
    \cup (IF v.userName # Undef /\ Len(v.userName) < 2
          THEN {"Username must be at least 2 characters long"} ELSE {})

DescriptionErrors(d) ==
    CASE d.kind = "undefined" -> {"Issue description (in ADF format) is required."}
      [] d.kind = "string" -> {"CRITICAL: Description must be an ADF object, NOT a string!"}
      [] OTHER ->
            (IF d.type = "undefined" THEN {"ADF document type is required."}
             ELSE IF d.type # "doc" THEN {"ADF document type must be \"doc\"."} ELSE {})
            \cup (IF d.version = 0 THEN {"ADF document version is required."}
                  ELSE IF d.version # 1 THEN {"ADF document version must be 1."} ELSE {})
            \cup (IF d.content = -1 THEN {"ADF document content is required."}
                  ELSE IF d.content < 1 THEN {"ADF document content cannot be empty."} ELSE {})

JiraCreateIssueRequestSchema(v) ==
    JiraApiRequestSchema(v) \cup RequiredProjectKey(v)
    \cup (IF v.projectKey # Undef /\ ~(Truthy(v.projectKey) /\ Len(Trim(v.projectKey)) > 0)
          THEN {"Project key cannot be empty"} ELSE {})
    \cup (IF ~Truthy(v.summary) THEN {"Issue summary/title is required"} ELSE {})
    \cup (IF v.summary # Undef /\ Len(v.summary) < 3
          THEN {"Issue title must be at least 3 characters long"} ELSE {})
    \cup (IF v.summary # Undef /\ Len(v.summary) > 255
          THEN {"Issue title must be at most 255 characters long"} ELSE {})
    \cup DescriptionErrors(v.description)
    \cup (IF v.issueType \notin IssueTypes
          THEN {"Issue type must be one of: Task, Bug, Story, Epic"} ELSE {})
    \cup (IF v.assigneeName # Undef /\ Len(v.assigneeName) < 2
          THEN {"Assignee name must be at least 2 characters long"} ELSE {})
    \cup (IF v.reporterName # Undef /\ Len(v.reporterName) < 2
          THEN {"Reporter name must be at least 2 characters long"} ELSE {})
    \cup (IF Truthy(v.sprintId) /\ ~MatchesNumeric(v.sprintId)
          THEN {"Sprint ID must be numeric"} ELSE {})

JiraSprintRequestSchema(v) ==
    JiraApiRequestSchema(v)
    \cup (IF Truthy(v.boardId) /\ ~MatchesNumeric(v.boardId)
          THEN {"Board ID must be numeric"} ELSE {})
    \cup (IF v.projectKey # Undef /\ ~MatchesProjectKey(v.projectKey)
          THEN {"Invalid project key format. Only uppercase letters, numbers, and underscores are allowed"}
          ELSE {})
    \cup (IF v.state \notin SprintStates
          THEN {"Sprint state must be one of: active, future, closed, all"} ELSE {})

\* schema.validate: the messages of the failing tests of the named schema.
SchemaErrors(schema, v) ==
    CASE schema = "JiraApiRequestSchema" -> JiraApiRequestSchema(v)
      [] schema = "JiraIssueRequestSchema" -> JiraIssueRequestSchema(v)
      [] schema = "JiraSearchIssuesRequestSchema" -> JiraSearchIssuesRequestSchema(v)
      [] schema = "JiraProjectMembersRequestSchema" -> JiraProjectMembersRequestSchema(v)
      [] schema = "JiraCheckUserIssuesRequestSchema" -> JiraCheckUserIssuesRequestSchema(v)
      [] schema = "JiraCreateIssueRequestSchema" -> JiraCreateIssueRequestSchema(v)
      [] schema = "JiraSprintRequestSchema" -> JiraSprintRequestSchema(v)

\* ---------------------------------------------------------------- registry

toolConfigs ==
    [n \in {"jira_list_projects", "jira_get_issue", "jira_search_issues",
            "jira_list_project_members", "jira_check_user_issues",
            "jira_create_issue", "jira_list_sprints"} |->
        CASE n = "jira_list_projects" ->
                [schema |-> "JiraApiRequestSchema", handler |-> "listProjects"]
          [] n = "jira_get_issue" ->
                [schema |-> "JiraIssueRequestSchema", handler |-> "getIssue"]
          [] n = "jira_search_issues" ->
                [schema |-> "JiraSearchIssuesRequestSchema", handler |-> "searchIssues"]
          [] n = "jira_list_project_members" ->
                [schema |-> "JiraProjectMembersRequestSchema", handler |-> "listProjectMembers"]
          [] n = "jira_check_user_issues" ->
                [schema |-> "JiraCheckUserIssuesRequestSchema", handler |-> "checkUserIssues"]
          [] n = "jira_create_issue" ->
                [schema |-> "JiraCreateIssueRequestSchema", handler |-> "createIssue"]
          [] n = "jira_list_sprints" ->
                [schema |-> "JiraSprintRequestSchema", handler |-> "listSprints"]]

RegisteredTools == DOMAIN toolConfigs

\* toolConfigs is an object literal: a name that is no key of its own but a
\* property of Object.prototype finds that inherited, truthy value, which
\* has neither schema nor handler.
ObjectPrototypeKeys == {"constructor", "toString", "valueOf", "hasOwnProperty", "__proto__"}

\* toolConfigs[name]: "config", "inherited" or "undefined".
LookupKind(name) ==
    IF name \in RegisteredTools THEN "config"
    ELSE IF name \in ObjectPrototypeKeys THEN "inherited"
    ELSE "undefined"

\* -------------------------------------------------------------------- state

VARIABLES
    env,            \* process.env: the process-wide credential defaults
    jira,           \* what the upstream Jira instance holds
    request,        \* the request handed to handleCallTool
    pc,             \* where the dispatch stands
    validatedArgs,  \* the value schema.validate resolved with
    result,         \* the ToolResult handleCallTool returned
    ran,            \* which of "validator", "handler" have been started
    calls,          \* the upstream requests issued so far, in order
    pending,        \* indexes (in calls) of the requests still in flight
    settled,        \* call index -> [ok, data]: the responses that arrived
    arrivals,       \* the call indexes in the order their responses arrived
    console,        \* console.warn output
    creds,          \* the handler's jiraHost, loginName, loginToken
    roleDetailsPromises, \* listProjectMembers / checkUserIssues
    allMembers,
    userFound,
    boardIds,       \* listSprints
    allSprints,
    cursor,
    formattedResponse,
    issuePayload,   \* createIssue
    createdIssue,
    parked          \* the locals of a second invocation suspended at an await

dispatchVars == <<env, jira, request, pc, validatedArgs, result, ran>>
upstreamVars == <<calls, pending, settled, arrivals>>
memberVars == <<roleDetailsPromises, allMembers, userFound>>
sprintVars == <<boardIds, allSprints, cursor, formattedResponse>>
createVars == <<issuePayload, createdIssue>>
vars == <<dispatchVars, upstreamVars, console, creds, memberVars, sprintVars, createVars, parked>>

\* --------------------------------------------------------------- envelopes

NoResult == [content |-> <<>>, isError |-> FALSE]

ToolResult(text, isError) ==
    [content |-> <<[type |-> "text", text |-> text]>>, isError |-> isError]

\* handleCallTool's answer for a name that finds nothing in toolConfigs.
UnknownTool(name) == ToolResult([kind |-> "Unknown tool: ", name |-> name], TRUE)

\* handleCallTool's catch: `Error: ${error.message}`.
Caught(message) == ToolResult([kind |-> "Error: ", message |-> message], TRUE)

\* The handlers' own catch blocks: `# Error\n\n${errorMsg}`.
HandlerError(e) ==
    ToolResult([kind |-> "# Error", status |-> e.status, message |-> e.message], TRUE)

MissingCredentials == "Missing required Jira credentials. Please provide them in the request or set them in the .env file."
MissingAuthentication == "Missing required authentication credentials. Please provide jiraHost, loginName, and loginToken."
SchemaOfUndefined == "Cannot read properties of undefined (reading 'validate')"

\* ---------------------------------------------------------------- upstream

\* How an axios request can reject: with a response (status), or with none.
UpstreamErrors ==
    {[status |-> 404, message |-> "Request failed with status code 404"],
     [status |-> 0, message |-> "Network Error"]}

NoParams == [jql |-> Undef, state |-> Undef, projectKeyOrId |-> Undef, query |-> Undef]

\* One axios request: method, normalized host, endpoint, the identifiers
\* interpolated into the path, the query parameters and the auth header.
Call(method, endpoint, a1, a2, params) ==
    [method |-> method,
     host |-> normalizeJiraHost(creds.jiraHost),
     endpoint |-> endpoint, arg1 |-> a1, arg2 |-> a2, params |-> params,
     auth |-> createAuthHeader(creds.loginName, creds.loginToken)]

\* Same, for the first request of a handler, whose credentials c are being
\* resolved in the same step.
FirstCall(c, method, endpoint, a1, a2, params) ==
    [method |-> method,
     host |-> normalizeJiraHost(c.jiraHost),
     endpoint |-> endpoint, arg1 |-> a1, arg2 |-> a2, params |-> params,
     auth |-> createAuthHeader(c.loginName, c.loginToken)]

\* ------------------------------------------------------------- dispatcher

\* Variant: process.env.X || args.x, the default before the argument.
ResolveCredentialsDefaultFirst(a) == [f \in CredFields |-> OrElse(env[f], a[f])]

\* validateAndGetCredentials / the handlers: args.x || process.env.X
ResolveCredentials(a) == [f \in CredFields |-> OrElse(a[f], env[f])]

CredentialsPresent(c) == validateCredentials(c.jiraHost, c.loginName, c.loginToken)

Finish(r) ==
    /\ pc' = "done"
    /\ result' = r

\* handleCallTool up to the schema validation: the destructuring of
\* request.params (outside the try block) and the registry lookup.
HandleCallTool ==
    /\ pc = "start"
    /\ IF ~request.hasParams
       THEN pc' = "rejected" /\ result' = result
       ELSE CASE LookupKind(request.name) = "undefined" -> Finish(UnknownTool(request.name))
              [] LookupKind(request.name) = "inherited" -> Finish(Caught(SchemaOfUndefined))
              [] OTHER -> pc' = "validate" /\ result' = result
    /\ UNCHANGED <<env, jira, parked, request, validatedArgs, ran, upstreamVars, console, creds,
                   memberVars, sprintVars, createVars>>

RawArguments == IF request.hasArgs THEN request.args ELSE NoArguments

\* Variant: the dispatcher casts the arguments and never tests them.
SchemaValidateUnchecked ==
    /\ pc = "validate"
    /\ ran' = ran \cup {"validator"}
    /\ validatedArgs' = SchemaCast(toolConfigs[request.name].schema, env, RawArguments)
    /\ pc' = "credentials"
    /\ result' = result
    /\ UNCHANGED <<env, jira, parked, request, upstreamVars, console, creds,
                   memberVars, sprintVars, createVars>>

\* await toolConfig.schema.validate(args)
SchemaValidate ==
    /\ pc = "validate"
    /\ ran' = ran \cup {"validator"}
    /\ LET schema == toolConfigs[request.name].schema
           v == SchemaCast(schema, env, RawArguments)
           errors == SchemaErrors(schema, v)
       IN IF errors = {}
          THEN /\ validatedArgs' = v
               /\ pc' = "credentials"
               /\ result' = result
          ELSE /\ \E m \in errors : Finish(Caught(m))
               /\ validatedArgs' = validatedArgs
    /\ UNCHANGED <<env, jira, parked, request, upstreamVars, console, creds,
                   memberVars, sprintVars, createVars>>

\* await validateAndGetCredentials(validatedArgs)
ValidateAndGetCredentials ==
    /\ pc = "credentials"
    /\ IF CredentialsPresent(ResolveCredentials(validatedArgs))
       THEN pc' = "handler" /\ result' = result
       ELSE Finish(Caught(MissingCredentials))
    /\ UNCHANGED <<env, jira, parked, request, validatedArgs, ran, upstreamVars, console, creds,
                   memberVars, sprintVars, createVars>>

\* The opening of every handler: validate the arguments again with the
\* tool's schema and resolve the credentials.  The set of messages the
\* handler throws with before its first request (empty: it goes on).
HandlerThrows(name) ==
    LET schema == toolConfigs[name].schema
        v == SchemaCast(schema, env, validatedArgs)
    IN IF SchemaErrors(schema, v) # {} THEN SchemaErrors(schema, v)
       ELSE IF ~CredentialsPresent(ResolveCredentials(v)) THEN {MissingAuthentication}
       ELSE {}

HandlerArgs(name) == SchemaCast(toolConfigs[name].schema, env, validatedArgs)

\* toolConfig.handler(argsWithCredentials) is entered.
Enter(name) ==
    /\ pc = "handler"
    /\ request.name = name
    /\ ran' = ran \cup {"handler"}

\* The handler issues one request and waits for it at position at.
Issue(call, at) ==
    /\ calls' = Append(calls, call)
    /\ pending' = pending \cup {Len(calls) + 1}
    /\ UNCHANGED <<settled, arrivals>>
    /\ pc' = at
    /\ result' = result

\* The handler threw before its first request; handleCallTool catches it.
ThrowEarly(messages) ==
    /\ \E m \in messages : Finish(Caught(m))
    /\ UNCHANGED <<upstreamVars, creds>>

\* A request either resolves with the instance's data or rejects.
Outcomes == {[ok |-> TRUE, error |-> [status |-> 200, message |-> "OK"]]}
            \cup {[ok |-> FALSE, error |-> e] : e \in UpstreamErrors}

\* The response to request i has arrived: resolved with data, or rejected.
Arrive(i, ok, data) ==
    /\ settled' = [k \in DOMAIN settled \cup {i} |->
                        IF k = i THEN [ok |-> ok, data |-> data] ELSE settled[k]]
    /\ arrivals' = Append(arrivals, i)

\* The response to request i has arrived and no request follows it.
Settle(i, ok) ==
    /\ Arrive(i, ok, <<>>)
    /\ pending' = pending \ {i}
    /\ calls' = calls

\* ------------------------------------------------------------ listProjects

ListProjects ==
    /\ Enter("jira_list_projects")
    /\ IF HandlerThrows("jira_list_projects") # {}
       THEN ThrowEarly(HandlerThrows("jira_list_projects"))
       ELSE LET c == ResolveCredentials(HandlerArgs("jira_list_projects"))
            IN /\ creds' = c
               /\ Issue(FirstCall(c, "GET", "/rest/api/3/project", Undef, Undef, NoParams),
                        "listProjects")
    /\ UNCHANGED <<env, jira, parked, request, validatedArgs, console, memberVars, sprintVars, createVars>>

ListProjectsResponse ==
    /\ pc = "listProjects"
    /\ \E o \in Outcomes :
        /\ Settle(Len(calls), o.ok)
        /\ IF o.ok
           THEN Finish(ToolResult([kind |-> "# Jira Projects", rows |-> jira.projects], FALSE))
           ELSE Finish(HandlerError(o.error))
    /\ UNCHANGED <<env, jira, parked, request, validatedArgs, ran, console, creds,
                   memberVars, sprintVars, createVars>>

\* ---------------------------------------------------------------- getIssue

GetIssue ==
    /\ Enter("jira_get_issue")
    /\ IF HandlerThrows("jira_get_issue") # {}
       THEN ThrowEarly(HandlerThrows("jira_get_issue"))
       ELSE LET a == HandlerArgs("jira_get_issue")
                c == ResolveCredentials(a)
            IN /\ creds' = c
               /\ Issue(FirstCall(c, "GET", "/rest/api/3/issue/{issueKey}", a.issueKey, Undef, NoParams),
                        "getIssue")
    /\ UNCHANGED <<env, jira, parked, request, validatedArgs, console, memberVars, sprintVars, createVars>>

GetIssueResponse ==
    /\ pc = "getIssue"
    /\ \E o \in Outcomes :
        /\ Settle(Len(calls), o.ok)
        /\ IF o.ok
           THEN Finish(ToolResult([kind |-> "# Issue", key |-> validatedArgs.issueKey], FALSE))
           ELSE Finish(HandlerError(
                    IF o.error.status = 404
                    THEN [o.error EXCEPT !.message = "Issue not found or you don't have permission to view it."]
                    ELSE o.error))
    /\ UNCHANGED <<env, jira, parked, request, validatedArgs, ran, console, creds,
                   memberVars, sprintVars, createVars>>

\* ------------------------------------------------------------ searchIssues

\* The JQL of a search: project, the assignee clause and its operator.
Jql(projectKey, op, assignee) ==
    [project |-> projectKey, op |-> op, assignee |-> assignee, orderBy |-> "created DESC"]

SearchParams(jql) ==
    [jql |-> jql, maxResults |-> 50,
     fields |-> "summary,status,assignee,created,issuetype,priority"]

SearchIssues ==
    /\ Enter("jira_search_issues")
    /\ IF HandlerThrows("jira_search_issues") # {}
       THEN ThrowEarly(HandlerThrows("jira_search_issues"))
       ELSE LET a == HandlerArgs("jira_search_issues")
                c == ResolveCredentials(a)
                jql == IF Truthy(a.assigneeName)
                       THEN Jql(a.projectKey, "~", a.assigneeName)
                       ELSE Jql(a.projectKey, "", Undef)
            IN /\ creds' = c
               /\ Issue(FirstCall(c, "GET", "/rest/api/3/search", Undef, Undef, SearchParams(jql)),
                        "searchIssues")
    /\ UNCHANGED <<env, jira, parked, request, validatedArgs, console, memberVars, sprintVars, createVars>>

\* searchIssues has no catch block: a rejection reaches handleCallTool.
SearchIssuesResponse ==
    /\ pc = "searchIssues"
    /\ \E o \in Outcomes :
        /\ Settle(Len(calls), o.ok)
        /\ IF o.ok
           THEN Finish(ToolResult([kind |-> "# Issues for Project", rows |-> jira.issues], FALSE))
           ELSE Finish(Caught(o.error.message))
    /\ UNCHANGED <<env, jira, parked, request, validatedArgs, ran, console, creds,
                   memberVars, sprintVars, createVars>>

\* ------------------------------------------------- role / member aggregation

\* roleUrl.split('/').pop()
RoleId(roleUrl) == roleUrl[Len(roleUrl)]

\* Variant: the map is keyed by the lower-cased display name.
MemberIndexFolded(members, displayName) ==
    IF \E i \in DOMAIN members : toLowerCase(members[i].displayName) = toLowerCase(displayName)
    THEN CHOOSE i \in DOMAIN members :
            toLowerCase(members[i].displayName) = toLowerCase(displayName)
    ELSE 0

\* Index of the record keyed by displayName in the member Map (a sequence
\* in insertion order), 0 when there is none: Map.has / Map.get.
MemberIndex(members, displayName) ==
    IF \E i \in DOMAIN members : members[i].displayName = displayName
    THEN CHOOSE i \in DOMAIN members : members[i].displayName = displayName
    ELSE 0

\* Variant: a display name seen again starts its record anew.
MergeActorReplace(members, roleName, actor) ==
    IF ~Truthy(actor.displayName) THEN members
    ELSE IF MemberIndex(members, actor.displayName) = 0
    THEN Append(members,
                [displayName |-> actor.displayName,
                 type |-> actor.type,
                 email |-> IF actor.emailAddress = "" THEN "N/A" ELSE actor.emailAddress,
                 roles |-> <<roleName>>])
    ELSE [members EXCEPT ![MemberIndex(members, actor.displayName)].roles = <<roleName>>]

\* The body of data.actors.forEach for one actor.
MergeActor(members, roleName, actor) ==
    IF ~Truthy(actor.displayName) THEN members
    ELSE IF MemberIndex(members, actor.displayName) = 0
    THEN Append(members,
                [displayName |-> actor.displayName,
                 type |-> actor.type,
                 email |-> IF actor.emailAddress = "" THEN "N/A" ELSE actor.emailAddress,
                 roles |-> <<roleName>>])
    ELSE [members EXCEPT ![MemberIndex(members, actor.displayName)].roles = Append(@, roleName)]

RECURSIVE MergeActors(_, _, _)
MergeActors(members, roleName, actors) ==
    IF actors = <<>> THEN members
    ELSE MergeActors(MergeActor(members, roleName, Head(actors)), roleName, Tail(actors))

\* for (const { roleName, data } of roleDetails) ...
RECURSIVE MergeRoleDetails(_, _)
MergeRoleDetails(members, roleDetails) ==
    IF roleDetails = <<>> THEN members
    ELSE MergeRoleDetails(
            MergeActors(members, Head(roleDetails).roleName, Head(roleDetails).data),
            Tail(roleDetails))

\* The requests the loop over Object.entries(projectRoles) issues: one per
\* entry whose value is a string, in entry order.
RECURSIVE RoleDetailCalls(_, _)
RoleDetailCalls(entries, projectKey) ==
    IF entries = <<>> THEN <<>>
    ELSE (IF Head(entries).isString
          THEN <<[roleName |-> Head(entries).name,
                  call |-> Call("GET", "/rest/api/3/project/{projectKey}/role/{roleId}",
                                projectKey, RoleId(Head(entries).url), NoParams)]>>
          ELSE <<>>)
         \o RoleDetailCalls(Tail(entries), projectKey)

\* Variant: the k-th role name is paired with the k-th response to arrive.
PromiseAllInArrivalOrder(promises, values, order) ==
    LET IsDetail(i) == \E k \in DOMAIN promises : promises[k].call = i
        arrived == SelectSeq(order, IsDetail)
    IN [k \in DOMAIN promises |->
            [roleName |-> promises[k].roleName, data |-> values[arrived[k]].data]]

\* What await Promise.all(roleDetailsPromises) resolves with: the values in
\* the order of the promises, whatever the order the responses arrived in.
PromiseAll(promises, values, order) ==
    [k \in DOMAIN promises |->
        [roleName |-> promises[k].roleName, data |-> values[promises[k].call].data]]

\* Variant: Promise.allSettled, a rejected role counts as a role without actors.
PromiseAllSettled(o) == FALSE

\* await Promise.all(...) has no catch around it: the first response that
\* rejects makes the handler throw.
PromiseAllRejects(o) == ~o.ok

\* response.data.actors of the role-detail request for roleId.
RoleActors(roleId, o) == IF o.ok THEN jira.actors[roleId] ELSE <<>>

\* The fan-out: every role-detail request is issued before any is awaited.
FanOut(projectKey, at) ==
    LET issued == RoleDetailCalls(jira.roles, projectKey)
    IN /\ calls' = calls \o [k \in DOMAIN issued |-> issued[k].call]
       /\ roleDetailsPromises' =
            [k \in DOMAIN issued |-> [roleName |-> issued[k].roleName, call |-> Len(calls) + k]]
       /\ pending' = (pending \ {Len(calls)}) \cup {Len(calls) + k : k \in DOMAIN issued}
       /\ pc' = at

MembersText(members, note) == [kind |-> "# Project Members", rows |-> members, note |-> note]

\* ------------------------------------------------------ listProjectMembers

ListProjectMembers ==
    /\ Enter("jira_list_project_members")
    /\ IF HandlerThrows("jira_list_project_members") # {}
       THEN ThrowEarly(HandlerThrows("jira_list_project_members"))
       ELSE LET a == HandlerArgs("jira_list_project_members")
                c == ResolveCredentials(a)
            IN /\ creds' = c
               /\ Issue(FirstCall(c, "GET", "/rest/api/3/project/{projectKey}/role",
                                  a.projectKey, Undef, NoParams),
                        "members.roles")
    /\ UNCHANGED <<env, jira, parked, request, validatedArgs, console, memberVars, sprintVars, createVars>>

\* The merge, the table and the return that follow Promise.all.
MembersReturn ==
    LET merged == MergeRoleDetails(<<>>, PromiseAll(roleDetailsPromises', settled', arrivals'))
    IN /\ allMembers' = merged
       /\ Finish(ToolResult(MembersText(merged,
                    IF merged = <<>> THEN "No project members found." ELSE ""), FALSE))

\* The role map arrives (or the request fails: no catch block).
MembersRolesResponse ==
    /\ pc = "members.roles"
    /\ \E o \in Outcomes :
        IF ~o.ok
        THEN /\ Settle(Len(calls), FALSE) /\ Finish(Caught(o.error.message))
             /\ UNCHANGED memberVars
        ELSE IF jira.roles = <<>>
        THEN /\ Settle(Len(calls), TRUE)
             /\ Finish(ToolResult(MembersText(<<>>, "No project roles found."), FALSE))
             /\ UNCHANGED memberVars
        ELSE /\ FanOut(validatedArgs.projectKey, "members.details")
             /\ Arrive(Len(calls), TRUE, <<>>)
             /\ userFound' = userFound
             /\ IF RoleDetailCalls(jira.roles, validatedArgs.projectKey) = <<>>
                THEN MembersReturn
                ELSE allMembers' = allMembers /\ result' = result
    /\ UNCHANGED <<env, jira, parked, request, validatedArgs, ran, console, creds, sprintVars, createVars>>

\* One role-detail response arrives, in any order.  A rejection rejects
\* Promise.all at once; the last resolution lets the merge run.
MembersRoleDetailResponse ==
    /\ pc = "members.details"
    /\ \E i \in pending, o \in Outcomes :
        IF PromiseAllRejects(o)
        THEN /\ Settle(i, FALSE) /\ Finish(Caught(o.error.message))
             /\ UNCHANGED memberVars
        ELSE /\ Arrive(i, o.ok, RoleActors(calls[i].arg2, o))
             /\ pending' = pending \ {i}
             /\ calls' = calls
             /\ UNCHANGED <<roleDetailsPromises, userFound>>
             /\ IF pending \ {i} = {}
                THEN MembersReturn
                ELSE UNCHANGED <<allMembers, pc, result>>
    /\ UNCHANGED <<env, jira, parked, request, validatedArgs, ran, console, creds, sprintVars, createVars>>

\* --------------------------------------------------------- checkUserIssues

\* String.prototype.includes
Includes(s, sub) ==
    \E i \in 0..(Len(s) - Len(sub)) : SubSeq(s, i + 1, i + Len(sub)) = sub

\* "for Jira", "Atlassian"
ForJira == <<102, 111, 114, 32, 74, 105, 114, 97>>
Atlassian == <<65, 116, 108, 97, 115, 115, 105, 97, 110>>

\* Variant: the display name is compared with userName as written.
RECURSIVE AnyActorMatchesExact(_, _)
AnyActorMatchesExact(roleDetails, userName) ==
    IF roleDetails = <<>> THEN FALSE
    ELSE \/ \E k \in DOMAIN Head(roleDetails).data :
                Head(roleDetails).data[k].displayName = userName
         \/ AnyActorMatchesExact(Tail(roleDetails), userName)

\* userFound after the merge loop: some actor with a display name matched
\* userName once both were lower-cased.
RECURSIVE AnyActorMatches(_, _)
AnyActorMatches(roleDetails, userName) ==
    IF roleDetails = <<>> THEN FALSE
    ELSE \/ \E k \in DOMAIN Head(roleDetails).data :
                /\ Truthy(Head(roleDetails).data[k].displayName)
                /\ toLowerCase(Head(roleDetails).data[k].displayName) = toLowerCase(userName)
         \/ AnyActorMatches(Tail(roleDetails), userName)

\* allMembers.get(Array.from(allMembers.keys()).find(name => ...) || ""):
\* the first record, in insertion order, whose key matches; its roles.
UserInfoRoles(members, userName) ==
    LET hits == {i \in DOMAIN members :
                    toLowerCase(members[i].displayName) = toLowerCase(userName)}
    IN IF hits = {} THEN <<>>
       ELSE members[CHOOSE i \in hits : \A j \in hits : i <= j].roles

\* The rows of "Available Project Members".
\* Variant: a user actor is left out when its name carries neither marker.
ListedMemberUnmarked(member) ==
    ~(/\ member.type = "atlassian-user-role-actor"
      /\ ~Includes(member.displayName, ForJira)
      /\ ~Includes(member.displayName, Atlassian))

ListedMember(member) ==
    \/ member.type # "atlassian-user-role-actor"
    \/ (~Includes(member.displayName, ForJira) /\ ~Includes(member.displayName, Atlassian))

RECURSIVE AvailableMembers(_)
AvailableMembers(members) ==
    IF members = <<>> THEN <<>>
    ELSE (IF ListedMember(Head(members))
          THEN <<[displayName |-> Head(members).displayName, roles |-> Head(members).roles]>>
          ELSE <<>>)
         \o AvailableMembers(Tail(members))

CheckText(userName, step1, roles, available, step2) ==
    [kind |-> "# Checking User", userName |-> userName, step1 |-> step1,
     roles |-> roles, available |-> available, step2 |-> step2]

CheckUserIssues ==
    /\ Enter("jira_check_user_issues")
    /\ IF HandlerThrows("jira_check_user_issues") # {}
       THEN ThrowEarly(HandlerThrows("jira_check_user_issues"))
       ELSE LET a == HandlerArgs("jira_check_user_issues")
                c == ResolveCredentials(a)
            IN /\ creds' = c
               /\ Issue(FirstCall(c, "GET", "/rest/api/3/project/{projectKey}/role",
                                  a.projectKey, Undef, NoParams),
                        "check.roles")
    /\ UNCHANGED <<env, jira, parked, request, validatedArgs, console, memberVars, sprintVars, createVars>>

\* The merge and the membership test that follow Promise.all, then either
\* the issue search (user found) or the return (user not found).
CheckMerged ==
    LET userName == validatedArgs.userName
        roleDetails == PromiseAll(roleDetailsPromises', settled', arrivals')
        merged == MergeRoleDetails(<<>>, roleDetails)
        found == AnyActorMatches(roleDetails, userName)
    IN /\ allMembers' = merged
       /\ userFound' = found
       /\ IF found
          THEN /\ formattedResponse' =
                    CheckText(userName, "found", UserInfoRoles(merged, userName), <<>>, "")
               /\ calls' = Append(calls,
                    Call("GET", "/rest/api/3/search", Undef, Undef,
                         SearchParams(Jql(validatedArgs.projectKey, "=", userName))))
               /\ pending' = {Len(calls) + 1}
               /\ pc' = "check.search"
               /\ result' = result
          ELSE /\ formattedResponse' = formattedResponse
               /\ calls' = calls
               /\ pending' = {}
               /\ Finish(ToolResult(
                    CheckText(userName, "NOT a member", <<>>, AvailableMembers(merged), ""),
                    FALSE))

CheckRolesResponse ==
    /\ pc = "check.roles"
    /\ \E o \in Outcomes :
        IF ~o.ok
        THEN /\ Settle(Len(calls), FALSE) /\ Finish(Caught(o.error.message))
             /\ UNCHANGED <<memberVars, formattedResponse>>
        ELSE IF jira.roles = <<>>
        THEN /\ Settle(Len(calls), TRUE)
             /\ Finish(ToolResult(
                    CheckText(validatedArgs.userName, "No project roles found", <<>>, <<>>, ""),
                    FALSE))
             /\ UNCHANGED <<memberVars, formattedResponse>>
        ELSE IF RoleDetailCalls(jira.roles, validatedArgs.projectKey) = <<>>
        THEN /\ roleDetailsPromises' = <<>>
             /\ Arrive(Len(calls), TRUE, <<>>)
             /\ CheckMerged
        ELSE /\ FanOut(validatedArgs.projectKey, "check.details")
             /\ Arrive(Len(calls), TRUE, <<>>)
             /\ UNCHANGED <<allMembers, userFound, formattedResponse, result>>
    /\ UNCHANGED <<env, jira, parked, request, validatedArgs, ran, console, creds,
                   boardIds, allSprints, cursor, createVars>>

CheckRoleDetailResponse ==
    /\ pc = "check.details"
    /\ \E i \in pending, o \in Outcomes :
        IF PromiseAllRejects(o)
        THEN /\ Settle(i, FALSE) /\ Finish(Caught(o.error.message))
             /\ UNCHANGED <<memberVars, formattedResponse>>
        ELSE /\ roleDetailsPromises' = roleDetailsPromises
             /\ Arrive(i, o.ok, RoleActors(calls[i].arg2, o))
             /\ IF pending \ {i} = {}
                THEN CheckMerged
                ELSE /\ pending' = pending \ {i}
                     /\ UNCHANGED <<calls, allMembers, userFound, formattedResponse, pc, result>>
    /\ UNCHANGED <<env, jira, parked, request, validatedArgs, ran, console, creds,
                   boardIds, allSprints, cursor, createVars>>

\* The issue search of step 2 (no catch block).
CheckSearchResponse ==
    /\ pc = "check.search"
    /\ \E o \in Outcomes :
        /\ Settle(Len(calls), o.ok)
        /\ IF o.ok
           THEN Finish(ToolResult([formattedResponse EXCEPT !.step2 = jira.issues], FALSE))
           ELSE Finish(Caught(o.error.message))
    /\ UNCHANGED <<env, jira, parked, request, validatedArgs, ran, console, creds,
                   memberVars, sprintVars, createVars>>

\* ------------------------------------------------------------- listSprints

\* boardResponse.data.values.slice(0, 5)
BoardLimit == 5

Min(a, b) == IF a <= b THEN a ELSE b

\* new Date(s).getTime() of a date written as the digits YYYYMMDD: a
\* number that grows with the date.
RECURSIVE DateTime(_)
DateTime(s) ==
    IF s = <<>> THEN 0 ELSE 10 * DateTime(SubSeq(s, 1, Len(s) - 1)) + (s[Len(s)] - 48)

\* Variant: a sprint without start date counts as the newest.
StartTimeMissingNewest(sprint) ==
    IF Truthy(sprint.startDate) THEN DateTime(sprint.startDate) ELSE 99999999

\* a.startDate ? new Date(a.startDate).getTime() : 0
StartTime(sprint) == IF Truthy(sprint.startDate) THEN DateTime(sprint.startDate) ELSE 0

\* Array.prototype.sort with (a, b) => dateB - dateA: a stable sort,
\* descending by start time.  Insert x after every element not older.
RECURSIVE InsertSprint(_, _)
InsertSprint(sorted, x) ==
    IF sorted = <<>> THEN <<x>>
    ELSE IF StartTime(Head(sorted)) >= StartTime(x)
    THEN <<Head(sorted)>> \o InsertSprint(Tail(sorted), x)
    ELSE <<x>> \o sorted

RECURSIVE SortSprints(_)
SortSprints(sprints) ==
    IF sprints = <<>> THEN <<>>
    ELSE InsertSprint(SortSprints(SubSeq(sprints, 1, Len(sprints) - 1)), sprints[Len(sprints)])

\* The upstream's answer to GET board/{id}/sprint: the board's sprints in
\* the requested state (every sprint when no state parameter is sent).
RECURSIVE SprintsInState(_, _)
SprintsInState(sprints, state) ==
    IF sprints = <<>> THEN <<>>
    ELSE (IF state = Undef \/ Head(sprints).state = state THEN <<Head(sprints)>> ELSE <<>>)
         \o SprintsInState(Tail(sprints), state)

\* sprintResponse.data.values.map(sprint => ({...sprint, boardId: bId}))
WithBoardInfo(sprints, bId) ==
    [k \in DOMAIN sprints |->
        [id |-> sprints[k].id, state |-> sprints[k].state,
         startDate |-> sprints[k].startDate, boardId |-> bId]]

SprintState(a) == OrElse(a.state, StateActive)

SprintCall(bId, state) ==
    Call("GET", "/rest/agile/1.0/board/{bId}/sprint", bId, Undef,
         [NoParams EXCEPT !.state = IF state # StateAll THEN state ELSE Undef])

SprintIssuesCall(sprint) ==
    Call("GET", "/rest/agile/1.0/sprint/{id}/issue", sprint.id, Undef,
         [jql |-> Undef, state |-> Undef, projectKeyOrId |-> Undef, query |-> Undef,
          fields |-> "summary,status,assignee,issuetype"])

\* listSprints' catch block.
SprintsError(e) ==
    ToolResult([kind |-> "# Error", status |-> e.status, message |-> e.message], TRUE)

NoBoardsFound(projectKey) ==
    ToolResult([kind |-> "# No Boards Found", projectKey |-> projectKey], FALSE)

\* Variant: the project key is named in preference to the board id.
NoSprintsFoundProjectFirst(a) ==
    ToolResult([kind |-> "# No Sprints Found",
                state |-> IF SprintState(a) # StateAll THEN SprintState(a) ELSE Undef,
                boardId |-> IF ~Truthy(a.projectKey) /\ Truthy(a.boardId)
                            THEN a.boardId ELSE Undef,
                projectKey |-> IF Truthy(a.projectKey) THEN a.projectKey ELSE Undef],
               FALSE)

NoSprintsFound(a) ==
    ToolResult([kind |-> "# No Sprints Found",
                state |-> IF SprintState(a) # StateAll THEN SprintState(a) ELSE Undef,
                boardId |-> IF Truthy(a.boardId) THEN a.boardId ELSE Undef,
                projectKey |-> IF ~Truthy(a.boardId) /\ Truthy(a.projectKey)
                               THEN a.projectKey ELSE Undef],
               FALSE)

\* Variant: the project key is looked at before the board id.
ListSprintsProjectFirst ==
    /\ Enter("jira_list_sprints")
    /\ IF HandlerThrows("jira_list_sprints") # {}
       THEN /\ ThrowEarly(HandlerThrows("jira_list_sprints"))
            /\ UNCHANGED sprintVars
       ELSE LET a == HandlerArgs("jira_list_sprints")
                c == ResolveCredentials(a)
            IN /\ creds' = c
               /\ allSprints' = <<>>
               /\ formattedResponse' = formattedResponse
               /\ IF Truthy(a.boardId) /\ ~Truthy(a.projectKey)
                  THEN /\ boardIds' = <<a.boardId>>
                       /\ cursor' = 1
                       /\ Issue(FirstCall(c, "GET", "/rest/agile/1.0/board/{bId}/sprint",
                                    a.boardId, Undef,
                                    [NoParams EXCEPT !.state =
                                        IF SprintState(a) # StateAll THEN SprintState(a) ELSE Undef]),
                                "sprints.sprint")
                  ELSE /\ boardIds' = <<>>
                       /\ cursor' = 0
                       /\ Issue(FirstCall(c, "GET", "/rest/agile/1.0/board", Undef, Undef,
                                    [NoParams EXCEPT !.projectKeyOrId =
                                        IF Truthy(a.projectKey) THEN a.projectKey ELSE Undef]),
                                "sprints.boards")
    /\ UNCHANGED <<env, jira, parked, request, validatedArgs, console, memberVars, createVars>>

ListSprints ==
    /\ Enter("jira_list_sprints")
    /\ IF HandlerThrows("jira_list_sprints") # {}
       THEN /\ ThrowEarly(HandlerThrows("jira_list_sprints"))
            /\ UNCHANGED sprintVars
       ELSE LET a == HandlerArgs("jira_list_sprints")
                c == ResolveCredentials(a)
            IN /\ creds' = c
               /\ allSprints' = <<>>
               /\ formattedResponse' = formattedResponse
               /\ IF Truthy(a.boardId)
                  THEN /\ boardIds' = <<a.boardId>>
                       /\ cursor' = 1
                       /\ Issue(FirstCall(c, "GET", "/rest/agile/1.0/board/{bId}/sprint",
                                    a.boardId, Undef,
                                    [NoParams EXCEPT !.state =
                                        IF SprintState(a) # StateAll THEN SprintState(a) ELSE Undef]),
                                "sprints.sprint")
                  ELSE /\ boardIds' = <<>>
                       /\ cursor' = 0
                       /\ Issue(FirstCall(c, "GET", "/rest/agile/1.0/board", Undef, Undef,
                                    [NoParams EXCEPT !.projectKeyOrId =
                                        IF Truthy(a.projectKey) THEN a.projectKey ELSE Undef]),
                                "sprints.boards")
    /\ UNCHANGED <<env, jira, parked, request, validatedArgs, console, memberVars, createVars>>

\* Variant: every board of the unfiltered listing is used.
SprintsBoardsResponseUntruncated ==
    /\ pc = "sprints.boards"
    /\ \E o \in Outcomes :
        LET a == validatedArgs
            values == IF Truthy(a.projectKey) THEN jira.projectBoards ELSE jira.allBoards
            ids == values
        IN IF ~o.ok
           THEN /\ Settle(Len(calls), FALSE) /\ Finish(SprintsError(o.error))
                /\ UNCHANGED <<boardIds, cursor>>
           ELSE IF values = <<>>
           THEN /\ Settle(Len(calls), TRUE)
                /\ Finish(NoBoardsFound(IF Truthy(a.projectKey) THEN a.projectKey ELSE Undef))
                /\ UNCHANGED <<boardIds, cursor>>
           ELSE /\ boardIds' = ids
                /\ cursor' = 1
                /\ calls' = Append(calls, SprintCall(ids[1], SprintState(a)))
                /\ pending' = {Len(calls) + 1}
                /\ Arrive(Len(calls), TRUE, <<>>)
                /\ pc' = "sprints.sprint"
                /\ result' = result
    /\ UNCHANGED <<env, jira, parked, request, validatedArgs, ran, console, creds,
                   memberVars, allSprints, formattedResponse, createVars>>

\* The board listing arrives: the project's boards, or the first five of
\* all boards; none is a "No Boards Found" result.
\* Variant: an empty board listing is not told apart; the board loop runs
\* over no board and the empty sprint list is reported.
SprintsBoardsResponseUnchecked ==
    /\ pc = "sprints.boards"
    /\ \E o \in Outcomes :
        LET a == validatedArgs
            values == IF Truthy(a.projectKey) THEN jira.projectBoards ELSE jira.allBoards
            ids == IF Truthy(a.projectKey) THEN values
                   ELSE SubSeq(values, 1, Min(BoardLimit, Len(values)))
        IN IF ~o.ok
           THEN /\ Settle(Len(calls), FALSE) /\ Finish(SprintsError(o.error))
                /\ UNCHANGED <<boardIds, cursor>>
           ELSE IF values = <<>>
           THEN /\ Settle(Len(calls), TRUE)
                /\ Finish(NoSprintsFound(a))
                /\ UNCHANGED <<boardIds, cursor>>
           ELSE /\ boardIds' = ids
                /\ cursor' = 1
                /\ calls' = Append(calls, SprintCall(ids[1], SprintState(a)))
                /\ pending' = {Len(calls) + 1}
                /\ Arrive(Len(calls), TRUE, <<>>)
                /\ pc' = "sprints.sprint"
                /\ result' = result
    /\ UNCHANGED <<env, jira, parked, request, validatedArgs, ran, console, creds,
                   memberVars, allSprints, formattedResponse, createVars>>

SprintsBoardsResponse ==
    /\ pc = "sprints.boards"
    /\ \E o \in Outcomes :
        LET a == validatedArgs
            values == IF Truthy(a.projectKey) THEN jira.projectBoards ELSE jira.allBoards
            ids == IF Truthy(a.projectKey) THEN values
                   ELSE SubSeq(values, 1, Min(BoardLimit, Len(values)))
        IN IF ~o.ok
           THEN /\ Settle(Len(calls), FALSE) /\ Finish(SprintsError(o.error))
                /\ UNCHANGED <<boardIds, cursor>>
           ELSE IF values = <<>>
           THEN /\ Settle(Len(calls), TRUE)
                /\ Finish(NoBoardsFound(IF Truthy(a.projectKey) THEN a.projectKey ELSE Undef))
                /\ UNCHANGED <<boardIds, cursor>>
           ELSE /\ boardIds' = ids
                /\ cursor' = 1
                /\ calls' = Append(calls, SprintCall(ids[1], SprintState(a)))
                /\ pending' = {Len(calls) + 1}
                /\ Arrive(Len(calls), TRUE, <<>>)
                /\ pc' = "sprints.sprint"
                /\ result' = result
    /\ UNCHANGED <<env, jira, parked, request, validatedArgs, ran, console, creds,
                   memberVars, allSprints, formattedResponse, createVars>>

SprintsText(sprints, details) ==
    [kind |-> "Sprints", table |-> sprints, details |-> details]

\* Variant: an empty list after a failed board fetch is reported as an error.
AfterBoardsTellingFailures(all) ==
    IF all = <<>> /\ \E i \in DOMAIN settled' : ~settled'[i].ok
    THEN /\ Finish(Caught("Could not fetch sprints"))
         /\ allSprints' = all
         /\ UNCHANGED <<calls, cursor, formattedResponse>>
         /\ pending' = {}
    ELSE IF all = <<>>
    THEN /\ Finish(NoSprintsFound(validatedArgs))
         /\ allSprints' = all
         /\ UNCHANGED <<calls, cursor, formattedResponse>>
         /\ pending' = {}
    ELSE /\ allSprints' = SortSprints(all)
         /\ formattedResponse' = SprintsText(SortSprints(all), <<>>)
         /\ cursor' = 1
         /\ calls' = Append(calls, SprintIssuesCall(SortSprints(all)[1]))
         /\ pending' = {Len(calls) + 1}
         /\ pc' = "sprints.issues"
         /\ result' = result

\* What follows the loop over the boards: the "No Sprints Found" return,
\* or the sort, the summary table and the first sprint's issue request.
AfterBoards(all) ==
    IF all = <<>>
    THEN /\ Finish(NoSprintsFound(validatedArgs))
         /\ allSprints' = all
         /\ UNCHANGED <<calls, cursor, formattedResponse>>
         /\ pending' = {}
    ELSE /\ allSprints' = SortSprints(all)
         /\ formattedResponse' = SprintsText(SortSprints(all), <<>>)
         /\ cursor' = 1
         /\ calls' = Append(calls, SprintIssuesCall(SortSprints(all)[1]))
         /\ pending' = {Len(calls) + 1}
         /\ pc' = "sprints.issues"
         /\ result' = result

\* Variant: a failed board request empties what the loop has collected.
SprintsSprintResponseDropping ==
    /\ pc = "sprints.sprint"
    /\ \E o \in Outcomes :
        LET bId == boardIds[cursor]
            values == SprintsInState(jira.sprints[bId], calls[Len(calls)].params.state)
            all == IF o.ok THEN allSprints \o WithBoardInfo(values, bId) ELSE <<>>
        IN /\ console' = IF o.ok THEN console
                         ELSE Append(console, [warn |-> "Could not fetch sprints for board", id |-> bId])
           /\ Arrive(Len(calls), o.ok, <<>>)
           /\ IF cursor < Len(boardIds)
              THEN /\ allSprints' = all
                   /\ cursor' = cursor + 1
                   /\ calls' = Append(calls, SprintCall(boardIds[cursor + 1], SprintState(validatedArgs)))
                   /\ pending' = {Len(calls) + 1}
                   /\ UNCHANGED <<formattedResponse, pc, result>>
              ELSE AfterBoards(all)
    /\ UNCHANGED <<env, jira, parked, request, validatedArgs, ran, creds, memberVars, boardIds, createVars>>

\* The sprints of board boardIds[cursor] arrive, or the request fails and
\* the board is skipped with a console warning.
SprintsSprintResponse ==
    /\ pc = "sprints.sprint"
    /\ \E o \in Outcomes :
        LET bId == boardIds[cursor]
            values == SprintsInState(jira.sprints[bId], calls[Len(calls)].params.state)
            all == IF o.ok THEN allSprints \o WithBoardInfo(values, bId) ELSE allSprints
        IN /\ console' = IF o.ok THEN console
                         ELSE Append(console, [warn |-> "Could not fetch sprints for board", id |-> bId])
           /\ Arrive(Len(calls), o.ok, <<>>)
           /\ IF cursor < Len(boardIds)
              THEN /\ allSprints' = all
                   /\ cursor' = cursor + 1
                   /\ calls' = Append(calls, SprintCall(boardIds[cursor + 1], SprintState(validatedArgs)))
                   /\ pending' = {Len(calls) + 1}
                   /\ UNCHANGED <<formattedResponse, pc, result>>
              ELSE AfterBoards(all)
    /\ UNCHANGED <<env, jira, parked, request, validatedArgs, ran, creds, memberVars, boardIds, createVars>>

\* The issues of sprint allSprints[cursor] arrive, or the request fails and
\* the section says so; then the next sprint, or the return.
\* Variant: a failed issue fetch reaches the outer catch and ends the report.
SprintsIssuesResponseAborting ==
    /\ pc = "sprints.issues"
    /\ \E o \in Outcomes :
        LET sprint == allSprints[cursor]
            section == [sprint |-> sprint.id, boardId |-> sprint.boardId,
                        issues |-> IF jira.sprintIssues[sprint.id] = 0
                                   THEN "No issues found in this sprint."
                                   ELSE "#### Issues",
                        count |-> jira.sprintIssues[sprint.id]]
            text == [formattedResponse EXCEPT !.details = Append(@, section)]
        IN /\ Arrive(Len(calls), o.ok, <<>>)
           /\ IF ~o.ok
              THEN /\ Finish(SprintsError(o.error))
                   /\ pending' = {}
                   /\ UNCHANGED <<calls, cursor, formattedResponse>>
              ELSE IF cursor < Len(allSprints)
              THEN /\ formattedResponse' = text
                   /\ cursor' = cursor + 1
                   /\ calls' = Append(calls, SprintIssuesCall(allSprints[cursor + 1]))
                   /\ pending' = {Len(calls) + 1}
                   /\ UNCHANGED <<pc, result>>
              ELSE /\ formattedResponse' = text
                   /\ Finish(ToolResult(text, FALSE))
                   /\ pending' = {}
                   /\ UNCHANGED <<calls, cursor>>
    /\ UNCHANGED <<env, jira, parked, request, validatedArgs, ran, console, creds, memberVars,
                   boardIds, allSprints, createVars>>

SprintsIssuesResponse ==
    /\ pc = "sprints.issues"
    /\ \E o \in Outcomes :
        LET sprint == allSprints[cursor]
            section == [sprint |-> sprint.id, boardId |-> sprint.boardId,
                        issues |-> IF ~o.ok THEN "Could not fetch issues for this sprint."
                                   ELSE IF jira.sprintIssues[sprint.id] = 0
                                   THEN "No issues found in this sprint."
                                   ELSE "#### Issues",
                        count |-> IF o.ok THEN jira.sprintIssues[sprint.id] ELSE 0]
            text == [formattedResponse EXCEPT !.details = Append(@, section)]
        IN /\ formattedResponse' = text
           /\ Arrive(Len(calls), o.ok, <<>>)
           /\ IF cursor < Len(allSprints)
              THEN /\ cursor' = cursor + 1
                   /\ calls' = Append(calls, SprintIssuesCall(allSprints[cursor + 1]))
                   /\ pending' = {Len(calls) + 1}
                   /\ UNCHANGED <<pc, result>>
              ELSE /\ Finish(ToolResult(text, FALSE))
                   /\ pending' = {}
                   /\ UNCHANGED <<calls, cursor>>
    /\ UNCHANGED <<env, jira, parked, request, validatedArgs, ran, console, creds, memberVars,
                   boardIds, allSprints, createVars>>

\* ------------------------------------------------------------- createIssue

\* utils/adfUtils.js is not among the sources; the description has passed
\* the schema as an ADF document and is carried into the payload.
toADF(description) == description

\* Variant: the display names are compared as they are.
PickUserCaseSensitive(candidates, name) ==
    LET hits == {i \in DOMAIN candidates : candidates[i].displayName = name}
    IN IF hits = {} THEN candidates[1]
       ELSE candidates[CHOOSE i \in hits : \A j \in hits : i <= j]

\* userResponse.data.find(user => user.displayName.toLowerCase() ===
\* name.toLowerCase()) || userResponse.data[0]
PickUser(candidates, name) ==
    LET hits == {i \in DOMAIN candidates :
                    toLowerCase(candidates[i].displayName) = toLowerCase(name)}
    IN IF hits = {} THEN candidates[1]
       ELSE candidates[CHOOSE i \in hits : \A j \in hits : i <= j]

\* The upstream's answer to GET user/search?query=name.
UserSearch(name) == IF name \in DOMAIN jira.users THEN jira.users[name] ELSE <<>>

UserSearchCall(name) ==
    Call("GET", "/rest/api/3/user/search", Undef, Undef, [NoParams EXCEPT !.query = name])

\* createIssue's catch block: the title chosen from the error.
CreateError(e) ==
    ToolResult([kind |-> IF e.status = 403 THEN "# Permission Error"
                         ELSE IF e.status = 429 THEN "# Rate Limit Exceeded"
                         ELSE IF e.status # 0 THEN "# API Error"
                         ELSE "# Network Error",
                status |-> e.status, message |-> e.message], TRUE)

\* The step after the assignee lookup: the reporter lookup when a reporter
\* is named, else the POST of the issue with the payload built so far.
AfterAssignee(payload) ==
    /\ issuePayload' = payload
    /\ IF Truthy(validatedArgs.reporterName)
       THEN /\ calls' = Append(calls, UserSearchCall(validatedArgs.reporterName))
            /\ pc' = "create.reporter"
       ELSE /\ calls' = Append(calls, [Call("POST", "/rest/api/3/issue", Undef, Undef, NoParams)
                                        EXCEPT !.params = payload])
            /\ pc' = "create.post"
    /\ pending' = {Len(calls) + 1}

CreateIssue ==
    /\ Enter("jira_create_issue")
    /\ IF HandlerThrows("jira_create_issue") # {}
       THEN /\ ThrowEarly(HandlerThrows("jira_create_issue"))
            /\ UNCHANGED createVars
       ELSE LET a == HandlerArgs("jira_create_issue")
                c == ResolveCredentials(a)
                payload == [project |-> a.projectKey, summary |-> a.summary,
                            description |-> toADF(a.description),
                            issuetype |-> OrElse(a.issueType, TypeTask),
                            assignee |-> Undef, reporter |-> Undef]
                first == IF Truthy(a.assigneeName) THEN "create.assignee"
                         ELSE IF Truthy(a.reporterName) THEN "create.reporter"
                         ELSE "create.post"
            IN /\ creds' = c
               /\ issuePayload' = payload
               /\ createdIssue' = createdIssue
               /\ Issue(IF first = "create.post"
                        THEN [FirstCall(c, "POST", "/rest/api/3/issue", Undef, Undef, NoParams)
                                EXCEPT !.params = payload]
                        ELSE FirstCall(c, "GET", "/rest/api/3/user/search", Undef, Undef,
                                [NoParams EXCEPT !.query =
                                    IF first = "create.assignee" THEN a.assigneeName
                                    ELSE a.reporterName]),
                        first)
    /\ UNCHANGED <<env, jira, parked, request, validatedArgs, console, memberVars, sprintVars>>

\* Variant: a failed assignee lookup reaches createIssue's catch block.
CreateAssigneeResponseAborting ==
    /\ pc = "create.assignee"
    /\ \E o \in Outcomes :
        LET name == validatedArgs.assigneeName
            found == UserSearch(name)
        IN IF ~o.ok
           THEN /\ Settle(Len(calls), FALSE) /\ Finish(CreateError(o.error))
                /\ UNCHANGED <<console, issuePayload>>
           ELSE /\ console' = console
                /\ result' = result
                /\ Arrive(Len(calls), o.ok, <<>>)
                /\ AfterAssignee(IF found # <<>>
                                 THEN [issuePayload EXCEPT !.assignee = PickUser(found, name).accountId]
                                 ELSE issuePayload)
    /\ UNCHANGED <<env, jira, parked, request, validatedArgs, ran, creds,
                   memberVars, sprintVars, createdIssue>>

CreateAssigneeResponse ==
    /\ pc = "create.assignee"
    /\ \E o \in Outcomes :
        LET name == validatedArgs.assigneeName
            found == UserSearch(name)
        IN /\ console' = IF o.ok THEN console
                         ELSE Append(console, [warn |-> "Could not find assignee:", id |-> name])
           /\ Arrive(Len(calls), o.ok, <<>>)
           /\ AfterAssignee(IF o.ok /\ found # <<>>
                            THEN [issuePayload EXCEPT !.assignee = PickUser(found, name).accountId]
                            ELSE issuePayload)
    /\ UNCHANGED <<env, jira, parked, request, validatedArgs, result, ran, creds,
                   memberVars, sprintVars, createdIssue>>

CreateReporterResponse ==
    /\ pc = "create.reporter"
    /\ \E o \in Outcomes :
        LET name == validatedArgs.reporterName
            found == UserSearch(name)
            payload == IF o.ok /\ found # <<>>
                       THEN [issuePayload EXCEPT !.reporter = PickUser(found, name).accountId]
                       ELSE issuePayload
        IN /\ console' = IF o.ok THEN console
                         ELSE Append(console, [warn |-> "Could not find reporter:", id |-> name])
           /\ Arrive(Len(calls), o.ok, <<>>)
           /\ issuePayload' = payload
           /\ calls' = Append(calls, [Call("POST", "/rest/api/3/issue", Undef, Undef, NoParams)
                                        EXCEPT !.params = payload])
           /\ pending' = {Len(calls) + 1}
           /\ pc' = "create.post"
    /\ UNCHANGED <<env, jira, parked, request, validatedArgs, result, ran, creds,
                   memberVars, sprintVars, createdIssue>>

IssueGetCall(key) == Call("GET", "/rest/api/3/issue/{key}", key, Undef, NoParams)

\* Variant: the sprint attach is issued whether or not the POST returned an id.
CreatePostResponseAttachingAlways ==
    /\ pc = "create.post"
    /\ \E o \in Outcomes :
        IF ~o.ok
        THEN /\ Settle(Len(calls), FALSE) /\ Finish(CreateError(o.error))
             /\ createdIssue' = createdIssue
        ELSE /\ createdIssue' = jira.created
             /\ Arrive(Len(calls), TRUE, <<>>)
             /\ pending' = {Len(calls) + 1}
             /\ result' = result
             /\ IF Truthy(validatedArgs.sprintId)
                THEN /\ calls' = Append(calls,
                            [Call("POST", "/rest/agile/1.0/sprint/{sprintId}/issue",
                                  validatedArgs.sprintId, Undef, NoParams)
                             EXCEPT !.params = [issues |-> <<jira.created.id>>]])
                     /\ pc' = "create.sprint"
                ELSE /\ calls' = Append(calls, IssueGetCall(jira.created.key))
                     /\ pc' = "create.get"
    /\ UNCHANGED <<env, jira, parked, request, validatedArgs, ran, console, creds,
                   memberVars, sprintVars, issuePayload>>

\* The POST of the issue answers: a failure ends in the catch block; after
\* a success the sprint attach (sprintId && createdIssue.id), else the GET.
CreatePostResponse ==
    /\ pc = "create.post"
    /\ \E o \in Outcomes :
        IF ~o.ok
        THEN /\ Settle(Len(calls), FALSE) /\ Finish(CreateError(o.error))
             /\ createdIssue' = createdIssue
        ELSE /\ createdIssue' = jira.created
             /\ Arrive(Len(calls), TRUE, <<>>)
             /\ pending' = {Len(calls) + 1}
             /\ result' = result
             /\ IF Truthy(validatedArgs.sprintId) /\ Truthy(jira.created.id)
                THEN /\ calls' = Append(calls,
                            [Call("POST", "/rest/agile/1.0/sprint/{sprintId}/issue",
                                  validatedArgs.sprintId, Undef, NoParams)
                             EXCEPT !.params = [issues |-> <<jira.created.id>>]])
                     /\ pc' = "create.sprint"
                ELSE /\ calls' = Append(calls, IssueGetCall(jira.created.key))
                     /\ pc' = "create.get"
    /\ UNCHANGED <<env, jira, parked, request, validatedArgs, ran, console, creds,
                   memberVars, sprintVars, issuePayload>>

\* Variant: a failed sprint attach reaches createIssue's catch block.
CreateSprintResponseAborting ==
    /\ pc = "create.sprint"
    /\ \E o \in Outcomes :
        IF ~o.ok
        THEN /\ Settle(Len(calls), FALSE) /\ Finish(CreateError(o.error))
             /\ console' = console
        ELSE /\ console' = console
             /\ Arrive(Len(calls), o.ok, <<>>)
             /\ calls' = Append(calls, IssueGetCall(createdIssue.key))
             /\ pending' = {Len(calls) + 1}
             /\ pc' = "create.get"
             /\ result' = result
    /\ UNCHANGED <<env, jira, parked, request, validatedArgs, ran, creds,
                   memberVars, sprintVars, createVars>>

\* The sprint attach answers: a failure is a console warning only.
CreateSprintResponse ==
    /\ pc = "create.sprint"
    /\ \E o \in Outcomes :
        /\ console' = IF o.ok THEN console
                      ELSE Append(console, [warn |-> "Could not add issue to sprint:",
                                            id |-> validatedArgs.sprintId])
        /\ Arrive(Len(calls), o.ok, <<>>)
        /\ calls' = Append(calls, IssueGetCall(createdIssue.key))
        /\ pending' = {Len(calls) + 1}
        /\ pc' = "create.get"
    /\ UNCHANGED <<env, jira, parked, request, validatedArgs, result, ran, creds,
                   memberVars, sprintVars, createVars>>

\* Variant: a failed GET of the created issue is reported as a success.
CreateGetResponseForgiving ==
    /\ pc = "create.get"
    /\ \E o \in Outcomes :
        /\ Settle(Len(calls), o.ok)
        /\ Finish(ToolResult([kind |-> "# Issue Created Successfully",
                              key |-> createdIssue.key,
                              sprint |-> validatedArgs.sprintId], FALSE))
    /\ UNCHANGED <<env, jira, parked, request, validatedArgs, ran, console, creds,
                   memberVars, sprintVars, createVars>>

\* The GET of the created issue answers.
CreateGetResponse ==
    /\ pc = "create.get"
    /\ \E o \in Outcomes :
        /\ Settle(Len(calls), o.ok)
        /\ IF o.ok
           THEN Finish(ToolResult([kind |-> "# Issue Created Successfully",
                                   key |-> createdIssue.key,
                                   sprint |-> validatedArgs.sprintId], FALSE))
           ELSE Finish(CreateError(o.error))
    /\ UNCHANGED <<env, jira, parked, request, validatedArgs, ran, console, creds,
                   memberVars, sprintVars, createVars>>

\* ------------------------------------------------------------------ inputs

\* "A", "E": a credential given in the call, one set in the environment.
Given == <<65>>
FromEnv == <<69>>

\* A credential argument: absent, "", " " or "A".
CredValues == {Undef, <<>>, <<32>>, Given}

\* An environment variable: unset or "E".
EnvValues == {Undef, FromEnv}

FullEnv == [f \in CredFields |-> FromEnv]

\* "AB", "ab", "A"; "AB-1", "AB-0", "ab-1"; "1", "x", "7"
KeyAB == <<65, 66>>
ProjectKeys == {Undef, KeyAB, <<97, 98>>, <<65>>}
IssueAB1 == <<65, 66, 45, 49>>
IssueKeys == {Undef, <<>>, IssueAB1, <<65, 66, 45, 48>>, <<97, 98, 45, 49>>}
Board1 == <<49>>
Board2 == <<50>>
Board3 == <<51>>
NotNumeric == <<120>>

\* Display names "Jd", "jd", "Bo", "Al"; user names "JD", "Bo", "zz", "J".
NameJd == <<74, 100>>
NameJdLower == <<106, 100>>
NameBo == <<66, 111>>
NameAl == <<65, 108>>
UserJD == <<74, 68>>
UserZz == <<122, 122>>
TooShort == <<74>>

Actor(displayName, type, emailAddress) ==
    [displayName |-> displayName, type |-> type, emailAddress |-> emailAddress]

\* The actors a role-detail response is drawn from; the last has no
\* display name.
ActorPool ==
    {Actor(NameJd, "atlassian-user-role-actor", "jd@example.com"),
     Actor(NameJdLower, "atlassian-user-role-actor", ""),
     Actor(NameAl, "atlassian-group-role-actor", ""),
     Actor(Undef, "atlassian-group-role-actor", "")}

ActorLists == UNION {[1..n -> ActorPool] : n \in 0..MaxActors}

\* The entries of a role map, in Object.entries order.
RolePool ==
    <<[name |-> "Administrators", url |-> <<"https://jira", "project", "AB", "role", "10002">>],
      [name |-> "Developers", url |-> <<"https://jira", "project", "AB", "role", "10001">>]>>

RoleIds == {RoleId(RolePool[i].url) : i \in DOMAIN RolePool}

Sprint(id, state, startDate) == [id |-> id, state |-> state, startDate |-> startDate]

\* An instance with two roles sharing the actor "Jd", three boards for the
\* project and six in all.
DefaultJira ==
    [roles |-> [i \in DOMAIN RolePool |->
                    [name |-> RolePool[i].name, url |-> RolePool[i].url, isString |-> TRUE]],
     actors |-> [id \in RoleIds |->
                    IF id = "10002"
                    THEN <<Actor(NameJd, "atlassian-user-role-actor", "jd@example.com"),
                           Actor(NameBo, "atlassian-user-role-actor", "bo@example.com")>>
                    ELSE <<Actor(NameJd, "atlassian-user-role-actor", "jd@example.com"),
                           Actor(NameAl, "atlassian-group-role-actor", "")>>],
     projects |-> <<KeyAB>>,
     issues |-> <<IssueAB1>>,
     projectBoards |-> <<Board1, Board2, Board3>>,
     allBoards |-> <<Board1, Board2, Board3, <<52>>, <<53>>, <<54>>>>,
     sprints |-> [b \in {Board1, Board2, Board3, <<52>>, <<53>>, <<54>>} |->
                    IF b = Board1
                    THEN <<Sprint(<<49, 49>>, StateActive, Undef),
                           Sprint(<<49, 50>>, StateClosed, <<50, 48, 50, 52, 48, 49, 49, 48>>)>>
                    ELSE IF b = Board3
                    THEN <<Sprint(<<51, 49>>, StateActive, <<50, 48, 50, 52, 48, 51, 48, 49>>)>>
                    ELSE <<>>],
     sprintIssues |-> [id \in {<<49, 49>>, <<49, 50>>, <<51, 49>>} |->
                        IF id = <<49, 49>> THEN 2 ELSE 0],
     users |-> [n \in {NameJd, NameBo} |->
                    IF n = NameJd
                    THEN <<[displayName |-> NameJdLower, accountId |-> <<97, 49>>],
                           [displayName |-> NameJd, accountId |-> <<97, 50>>]>>
                    ELSE <<>>],
     created |-> [id |-> <<49, 48, 48, 48, 49>>, key |-> <<65, 66, 45, 55>>]]

\* The instances that differ from DefaultJira in the role map: the first k
\* roles of RolePool, each with a non-string value or with a list of actors.
MemberInstances ==
    UNION {
        {[DefaultJira EXCEPT
            !.roles = [i \in 1..k |->
                        [name |-> RolePool[i].name, url |-> RolePool[i].url,
                         isString |-> pick[1][i]]],
            !.actors = [id \in RoleIds |->
                        IF \E i \in 1..k : RoleId(RolePool[i].url) = id
                        THEN pick[2][CHOOSE i \in 1..k : RoleId(RolePool[i].url) = id]
                        ELSE <<>>]]
         : pick \in {p \in [1..k -> BOOLEAN] \X [1..k -> ActorLists] :
                        \A i \in 1..k : ~p[1][i] => p[2][i] = <<>>}}
        : k \in 0..Len(RolePool)}

\* The instance whose project has six boards, more than the unfiltered
\* listing keeps.
\* A project whose roles hold people, a group and app accounts: "B for Jira"
\* and "Atlassian X" are user actors, "Atlassian" is a group.
NameForJira == <<66, 32, 102, 111, 114, 32, 74, 105, 114, 97>>
AppAccounts ==
    [DefaultJira EXCEPT !.actors =
        [id \in RoleIds |->
            IF id = "10002"
            THEN <<Actor(NameJd, "atlassian-user-role-actor", "jd@example.com"),
                   Actor(NameForJira, "atlassian-user-role-actor", ""),
                   Actor(Atlassian, "atlassian-group-role-actor", "")>>
            ELSE <<Actor(Atlassian \o <<32, 88>>, "atlassian-user-role-actor", ""),
                   Actor(NameAl, "atlassian-group-role-actor", ""),
                   Actor(NameForJira, "atlassian-user-role-actor", "")>>]]

\* A user directory that answers a search for "Jd" with a stranger, then
\* "jd", then "Jd"; a search for "Bo" with two strangers; one for "Al" with
\* nobody. The POST of an issue may answer without an id.
UserDirectory ==
    [DefaultJira EXCEPT !.users =
        [n \in {NameJd, NameBo, NameAl} |->
            IF n = NameJd
            THEN <<[displayName |-> NameAl, accountId |-> <<97, 48>>],
                   [displayName |-> NameJdLower, accountId |-> <<97, 49>>],
                   [displayName |-> NameJd, accountId |-> <<97, 50>>]>>
            ELSE IF n = NameBo
            THEN <<[displayName |-> NameAl, accountId |-> <<97, 48>>],
                   [displayName |-> NameJdLower, accountId |-> <<97, 49>>]>>
            ELSE <<>>]]

\* Boards that hold no sprint.
NoSprints == [DefaultJira EXCEPT !.sprints = [b \in DOMAIN DefaultJira.sprints |-> <<>>]]

SixBoardProject == [DefaultJira EXCEPT !.projectBoards = DefaultJira.allBoards]

OkDescription == [kind |-> "object", type |-> "doc", version |-> 1, content |-> 1]

\* Valid tool arguments, without credentials.
BaseArgs(name) ==
    CASE name = "jira_get_issue" -> [NoArguments EXCEPT !.issueKey = IssueAB1]
      [] name \in {"jira_search_issues", "jira_list_project_members"} ->
            [NoArguments EXCEPT !.projectKey = KeyAB]
      [] name = "jira_check_user_issues" ->
            [NoArguments EXCEPT !.projectKey = KeyAB, !.userName = UserJD]
      [] name = "jira_create_issue" ->
            [NoArguments EXCEPT !.projectKey = KeyAB, !.summary = <<70, 105, 120>>,
                                !.description = OkDescription]
      [] name = "jira_list_sprints" -> [NoArguments EXCEPT !.boardId = Board1]
      [] OTHER -> NoArguments

Request(name, args) == [hasParams |-> TRUE, name |-> name, hasArgs |-> TRUE, args |-> args]

\* Names no tool is registered under; "undefined" is what a request
\* without a name looks up.
UnregisteredNames == {"jira_delete_issue", "constructor", "__proto__", "undefined"}

\* Every combination of given and default credentials, for every tool.
CredentialRequests ==
    {Request(name, [BaseArgs(name) EXCEPT !.jiraHost = h, !.loginName = n, !.loginToken = t])
     : name \in RegisteredTools, h \in CredValues, n \in CredValues, t \in CredValues}

\* Requests without params, without arguments, or for an unregistered name.
ShapeRequests ==
    {[hasParams |-> p, name |-> name, hasArgs |-> FALSE, args |-> NoArguments]
     : p \in BOOLEAN, name \in RegisteredTools \cup UnregisteredNames}
    \cup {Request(name, BaseArgs("jira_get_issue")) : name \in UnregisteredNames}

\* Valid and invalid tool arguments, the credentials left to the defaults.
ArgumentRequests ==
    {Request("jira_get_issue", [NoArguments EXCEPT !.issueKey = k]) : k \in IssueKeys}
    \cup {Request("jira_search_issues", [NoArguments EXCEPT !.projectKey = k, !.assigneeName = a])
          : k \in ProjectKeys, a \in {Undef, TooShort, NameJd}}
    \cup {Request("jira_list_project_members", [NoArguments EXCEPT !.projectKey = k])
          : k \in ProjectKeys}
    \cup {Request("jira_check_user_issues", [NoArguments EXCEPT !.projectKey = k, !.userName = u])
          : k \in ProjectKeys, u \in {Undef, <<>>, TooShort, UserJD, UserZz}}
    \cup {Request("jira_list_sprints",
                  [NoArguments EXCEPT !.boardId = b, !.projectKey = k, !.state = st])
          : b \in {Undef, Board1, Board2, NotNumeric}, k \in {Undef, KeyAB, <<97, 98>>},
            st \in {Undef, StateAll, StateClosed, <<120>>}}
    \cup {Request("jira_create_issue",
                  [NoArguments EXCEPT !.projectKey = KeyAB, !.summary = sm, !.description = d,
                                      !.issueType = ty, !.assigneeName = a,
                                      !.reporterName = r, !.sprintId = sp])
          : sm \in {Undef, <<70, 105>>, <<70, 105, 120>>},
            d \in {NoDescription, OkDescription,
                   [OkDescription EXCEPT !.kind = "string"],
                   [OkDescription EXCEPT !.type = "paragraph"],
                   [OkDescription EXCEPT !.content = 0]},
            ty \in {Undef, <<66, 117, 103>>, <<120>>},
            a \in {Undef, TooShort, NameJd, NameBo},
            r \in {Undef, NameJd},
            sp \in {Undef, <<55>>, NotNumeric}}

\* Membership requests, run against every instance of MemberInstances.
MemberRequests ==
    {Request("jira_list_project_members", BaseArgs("jira_list_project_members"))}
    \cup {Request("jira_check_user_issues", [BaseArgs("jira_check_user_issues") EXCEPT !.userName = u])
          : u \in {UserJD, NameJdLower, UserZz}}

\* Sprint listings by project, run against SixBoardProject.
ProjectSprintRequests ==
    {Request("jira_list_sprints", [NoArguments EXCEPT !.projectKey = KeyAB, !.state = st])
     : st \in {Undef, StateAll}}

\* Two invocations in flight together ask about the same project.
PairRequests ==
    {Request("jira_list_project_members", BaseArgs("jira_list_project_members")),
     Request("jira_check_user_issues",
             [BaseArgs("jira_check_user_issues") EXCEPT !.userName = UserJD])}
    \cup ProjectSprintRequests

\* The locals of an invocation of handleCallTool that has not taken a step.
Fresh(req) ==
    [request |-> req, pc |-> "start", validatedArgs |-> NoArguments, result |-> NoResult,
     ran |-> {}, calls |-> <<>>, pending |-> {}, settled |-> <<>>, arrivals |-> <<>>,
     creds |-> [f \in CredFields |-> Undef],
     roleDetailsPromises |-> <<>>, allMembers |-> <<>>, userFound |-> FALSE,
     boardIds |-> <<>>, allSprints |-> <<>>, cursor |-> 0,
     formattedResponse |-> SprintsText(<<>>, <<>>)]

\* ----------------------------------------------------------- specification

Init ==
    /\ \/ /\ env \in [CredFields -> EnvValues]
          /\ jira = DefaultJira
          /\ request \in CredentialRequests
       \/ /\ env \in {FullEnv, [f \in CredFields |-> Undef]}
          /\ jira = DefaultJira
          /\ request \in ShapeRequests
       \/ /\ env = FullEnv
          /\ jira = DefaultJira
          /\ request \in ArgumentRequests
       \/ /\ env = FullEnv
          /\ jira \in MemberInstances
          /\ request \in MemberRequests
       \/ /\ env = FullEnv
          /\ jira = SixBoardProject
          /\ request \in ProjectSprintRequests
       \* a membership check, for someone known and someone unknown, in a
       \* project with app accounts among its role actors
       \/ /\ env = FullEnv
          /\ jira = AppAccounts
          /\ request \in {Request("jira_check_user_issues",
                                  [BaseArgs("jira_check_user_issues") EXCEPT !.userName = u])
                          : u \in {UserJD, UserZz}}
       \* issues created with and without assignee, reporter and sprint; the
       \* POST may answer without an id
       \/ /\ env = FullEnv
          /\ jira \in {UserDirectory, [UserDirectory EXCEPT !.created.id = Undef]}
          /\ request \in {Request("jira_create_issue",
                                  [BaseArgs("jira_create_issue") EXCEPT
                                        !.assigneeName = a, !.reporterName = r, !.sprintId = sp])
                          : a \in {Undef, NameJd, NameBo, NameAl},
                            r \in {Undef, NameJd, NameBo, NameAl}, sp \in {Undef, <<55>>}}
       \* sprint listings by board, by project and unfiltered against a
       \* project without boards, an instance without boards and boards
       \* without sprints
       \/ /\ env = FullEnv
          /\ jira \in {[DefaultJira EXCEPT !.projectBoards = <<>>],
                       [DefaultJira EXCEPT !.projectBoards = <<>>, !.allBoards = <<>>],
                       NoSprints}
          /\ request \in {Request("jira_list_sprints",
                                  [NoArguments EXCEPT !.boardId = b, !.projectKey = k,
                                                      !.state = st])
                          : b \in {Undef, Board1}, k \in {Undef, KeyAB},
                            st \in {Undef, StateAll, StateClosed}}
    /\ pc = "start"
    /\ validatedArgs = NoArguments
    /\ result = NoResult
    /\ ran = {}
    /\ calls = <<>>
    /\ pending = {}
    /\ settled = <<>>
    /\ arrivals = <<>>
    /\ console = <<>>
    /\ creds = [f \in CredFields |-> Undef]
    /\ roleDetailsPromises = <<>>
    /\ allMembers = <<>>
    /\ userFound = FALSE
    /\ boardIds = <<>>
    /\ allSprints = <<>>
    /\ cursor = 0
    /\ formattedResponse = SprintsText(<<>>, <<>>)
    /\ issuePayload = [project |-> Undef, summary |-> Undef, description |-> NoDescription,
                       issuetype |-> Undef, assignee |-> Undef, reporter |-> Undef]
    /\ createdIssue = [id |-> Undef, key |-> Undef]
    /\ parked = [Fresh(Request("", NoArguments)) EXCEPT !.pc = "none"]

Next ==
    \/ HandleCallTool
    \/ SchemaValidate
    \/ ValidateAndGetCredentials
    \/ ListProjects
    \/ ListProjectsResponse
    \/ GetIssue
    \/ GetIssueResponse
    \/ SearchIssues
    \/ SearchIssuesResponse
    \/ ListProjectMembers
    \/ MembersRolesResponse
    \/ MembersRoleDetailResponse
    \/ CheckUserIssues
    \/ CheckRolesResponse
    \/ CheckRoleDetailResponse
    \/ CheckSearchResponse
    \/ ListSprints
    \/ SprintsBoardsResponse
    \/ SprintsSprintResponse
    \/ SprintsIssuesResponse
    \/ CreateIssue
    \/ CreateAssigneeResponse
    \/ CreateReporterResponse
    \/ CreatePostResponse
    \/ CreateSprintResponse
    \/ CreateGetResponse

Spec == Init /\ [][Next]_vars

\* ------------------------------------------------- two invocations in flight

\* The locals of the invocation that is running.
Locals ==
    [request |-> request, pc |-> pc, validatedArgs |-> validatedArgs, result |-> result,
     ran |-> ran, calls |-> calls, pending |-> pending, settled |-> settled,
     arrivals |-> arrivals, creds |-> creds,
     roleDetailsPromises |-> roleDetailsPromises, allMembers |-> allMembers,
     userFound |-> userFound,
     boardIds |-> boardIds, allSprints |-> allSprints, cursor |-> cursor,
     formattedResponse |-> formattedResponse]

\* The running invocation is suspended (at an await, or because it returned)
\* and the event loop resumes the other one: each function call has its own
\* locals; process.env, the Jira instance and the console are the process's.
SwitchSharingSprints ==
    /\ parked.pc # "none"
    /\ parked' = Locals
    /\ request' = parked.request
    /\ pc' = parked.pc
    /\ validatedArgs' = parked.validatedArgs
    /\ result' = parked.result
    /\ ran' = parked.ran
    /\ calls' = parked.calls
    /\ pending' = parked.pending
    /\ settled' = parked.settled
    /\ arrivals' = parked.arrivals
    /\ creds' = parked.creds
    /\ roleDetailsPromises' = parked.roleDetailsPromises
    /\ allMembers' = parked.allMembers
    /\ userFound' = parked.userFound
    /\ boardIds' = parked.boardIds
    /\ allSprints' = allSprints
    /\ cursor' = parked.cursor
    /\ formattedResponse' = parked.formattedResponse
    /\ UNCHANGED <<env, jira, console, createVars>>

Switch ==
    /\ parked.pc # "none"
    /\ parked' = Locals
    /\ request' = parked.request
    /\ pc' = parked.pc
    /\ validatedArgs' = parked.validatedArgs
    /\ result' = parked.result
    /\ ran' = parked.ran
    /\ calls' = parked.calls
    /\ pending' = parked.pending
    /\ settled' = parked.settled
    /\ arrivals' = parked.arrivals
    /\ creds' = parked.creds
    /\ roleDetailsPromises' = parked.roleDetailsPromises
    /\ allMembers' = parked.allMembers
    /\ userFound' = parked.userFound
    /\ boardIds' = parked.boardIds
    /\ allSprints' = parked.allSprints
    /\ cursor' = parked.cursor
    /\ formattedResponse' = parked.formattedResponse
    /\ UNCHANGED <<env, jira, console, createVars>>

InitPair ==
    /\ env = FullEnv
    /\ jira = DefaultJira
    /\ request \in PairRequests
    /\ parked \in {Fresh(req) : req \in PairRequests}
    /\ pc = "start"
    /\ validatedArgs = NoArguments
    /\ result = NoResult
    /\ ran = {}
    /\ calls = <<>>
    /\ pending = {}
    /\ settled = <<>>
    /\ arrivals = <<>>
    /\ console = <<>>
    /\ creds = [f \in CredFields |-> Undef]
    /\ roleDetailsPromises = <<>>
    /\ allMembers = <<>>
    /\ userFound = FALSE
    /\ boardIds = <<>>
    /\ allSprints = <<>>
    /\ cursor = 0
    /\ formattedResponse = SprintsText(<<>>, <<>>)
    /\ issuePayload = [project |-> Undef, summary |-> Undef, description |-> NoDescription,
                       issuetype |-> Undef, assignee |-> Undef, reporter |-> Undef]
    /\ createdIssue = [id |-> Undef, key |-> Undef]

NextPair ==
    \/ HandleCallTool
    \/ SchemaValidate
    \/ ValidateAndGetCredentials
    \/ ListProjectMembers
    \/ MembersRolesResponse
    \/ MembersRoleDetailResponse
    \/ CheckUserIssues
    \/ CheckRolesResponse
    \/ CheckRoleDetailResponse
    \/ CheckSearchResponse
    \/ ListSprints
    \/ SprintsBoardsResponse
    \/ SprintsSprintResponse
    \/ SprintsIssuesResponse
    \/ Switch

SpecPair == InitPair /\ [][NextPair]_vars

\* ------------------------------------------------------------- properties

\* The text of the returned envelope; read only once the dispatch is done.
Text == result.content[1].text

\* The request names a registered tool.
Registered == request.hasParams /\ request.name \in RegisteredTools

\* What the tool's schema says of the raw arguments.
RawSchemaErrors ==
    SchemaErrors(toolConfigs[request.name].schema,
                 SchemaCast(toolConfigs[request.name].schema, env, RawArguments))

RoleDetailEndpoint == "/rest/api/3/project/{projectKey}/role/{roleId}"
BoardSprintEndpoint == "/rest/agile/1.0/board/{bId}/sprint"

Range(seq) == {seq[k] : k \in DOMAIN seq}

\* C1: whatever the request (also one without params or arguments) and
\* whatever the upstream answers, handleCallTool never rejects, and what it
\* returns is a ToolResult: one text item and a boolean isError.
C1_NeverThrows ==
    /\ pc # "rejected"
    /\ pc = "done" => /\ Len(result.content) = 1
                      /\ result.content[1].type = "text"
                      /\ result.isError \in BOOLEAN

\* C2: a name that is no registered key ends the dispatch with isError and
\* the "Unknown tool" message; no validator, no handler and no upstream call.
C2_UnknownTool ==
    (request.hasParams /\ request.name \notin RegisteredTools) =>
        /\ ran = {}
        /\ calls = <<>>
        /\ pc = "done" => result.isError /\ Text.kind = "Unknown tool: "

\* C3: when the raw arguments of a registered tool fail its schema, the
\* result is an error carrying one of the validator's messages, the handler
\* is never entered and no upstream call is made.
C3_SchemaFailure ==
    (Registered /\ RawSchemaErrors # {}) =>
        /\ "handler" \notin ran
        /\ calls = <<>>
        /\ pc \in {"start", "validate", "done"}
        /\ pc = "done" => /\ result.isError
                          /\ Text.kind = "Error: "
                          /\ Text.message \in RawSchemaErrors

C3_Witness ==
    /\ Registered /\ RawSchemaErrors # {}
    /\ \A f \in CredFields : CredentialTest(SchemaCast("JiraApiRequestSchema", env, RawArguments)[f])
    /\ pc = "done" /\ "validator" \in ran /\ result.isError

\* A credential that neither the arguments nor the environment hold.
CredentialAbsent(f) == ~Truthy(RawArguments[f]) /\ ~Truthy(env[f])

\* C4: for every tool, a credential absent from the arguments and from the
\* environment ends the dispatch with isError; the handler is not entered
\* and no upstream call is issued.
C4_MissingCredential ==
    (Registered /\ \E f \in CredFields : CredentialAbsent(f)) =>
        /\ "handler" \notin ran
        /\ calls = <<>>
        /\ pc \in {"start", "validate", "credentials", "done"}
        /\ pc = "done" => result.isError

C4_Witness ==
    /\ request.hasParams /\ request.name = "jira_create_issue"
    /\ RawArguments.loginToken = Undef /\ env.loginToken = Undef
    /\ RawArguments.jiraHost = Given /\ env.loginName = FromEnv
    /\ pc = "done" /\ result.isError /\ calls = <<>>

\* The credential the precedence rule selects: the argument when one is
\* given, the environment's otherwise.
Precedence(f) == IF RawArguments[f] # Undef THEN RawArguments[f] ELSE env[f]

CredentialMessages ==
    {CredentialMessage(f) : f \in CredFields} \cup {MissingCredentials, MissingAuthentication}

\* C5: every upstream call is made with, for each credential on its own,
\* the argument when one is given and the environment's value otherwise;
\* and when every credential is usable from its selected source the
\* dispatch does not fail for a credential.
C5_CredentialPrecedence ==
    /\ \A i \in DOMAIN calls :
        /\ calls[i].host = normalizeJiraHost(Precedence("jiraHost"))
        /\ calls[i].auth = createAuthHeader(Precedence("loginName"), Precedence("loginToken"))
    /\ (Registered /\ \A f \in CredFields : CredentialTest(Precedence(f))) =>
        /\ pc \in {"credentials", "handler"} => RawSchemaErrors = {}
        /\ (pc = "done" /\ calls = <<>>) =>
                Text.kind = "Error: " /\ Text.message \notin CredentialMessages

C5_Witness ==
    /\ RawArguments.jiraHost = Given /\ env.jiraHost = FromEnv
    /\ RawArguments.loginName = Undef /\ env.loginName = FromEnv
    /\ RawArguments.loginToken = Given /\ env.loginToken = Undef
    /\ calls # <<>>
    /\ calls[1].host = normalizeJiraHost(Given)
    /\ calls[1].auth = createAuthHeader(FromEnv, Given)

\* Some role-detail request was rejected.
RoleDetailFailed ==
    \E i \in DOMAIN settled : calls[i].endpoint = RoleDetailEndpoint /\ ~settled[i].ok

\* C6: in jira_list_project_members and jira_check_user_issues a rejected
\* role-detail request ends the dispatch at once with an error: no member
\* table and no "NOT a member" answer from the roles that did resolve.
C6_AllOrNothing ==
    RoleDetailFailed =>
        /\ request.name \in {"jira_list_project_members", "jira_check_user_issues"}
        /\ pc = "done"
        /\ result.isError
        /\ Text.kind = "Error: "

C6_Witness ==
    /\ RoleDetailFailed
    /\ request.name = "jira_check_user_issues"
    /\ \E j \in DOMAIN settled :
        calls[j].endpoint = RoleDetailEndpoint /\ settled[j].ok /\ settled[j].data # <<>>
    /\ pc = "done" /\ result.isError

\* The sprint request of board b resolved / was rejected.
FetchOk(b) ==
    \E i \in DOMAIN settled :
        calls[i].endpoint = BoardSprintEndpoint /\ calls[i].arg1 = b /\ settled[i].ok
FetchFailed(b) ==
    \E i \in DOMAIN settled :
        calls[i].endpoint = BoardSprintEndpoint /\ calls[i].arg1 = b /\ ~settled[i].ok

\* The sprints the report lists, and the boards it names anywhere.
ReportedSprints ==
    IF Text.kind = "Sprints"
    THEN {<<Text.table[k].boardId, Text.table[k].id>> : k \in DOMAIN Text.table}
    ELSE {}
BoardsNamed ==
    IF Text.kind = "Sprints"
    THEN {Text.table[k].boardId : k \in DOMAIN Text.table}
         \cup {Text.details[k].boardId : k \in DOMAIN Text.details}
    ELSE IF Text.kind = "# No Sprints Found" THEN {Text.boardId} \ {Undef}
    ELSE {}

\* C7: with three boards A, B, C of which only B's sprint request fails,
\* the report lists the sprints of A and of C, names B as skipped, and is
\* no error.
C7_BoardIsolation ==
    (/\ pc = "done" /\ request.name = "jira_list_sprints" /\ Len(boardIds) = 3
     /\ FetchOk(boardIds[1]) /\ FetchFailed(boardIds[2]) /\ FetchOk(boardIds[3])) =>
        /\ ~result.isError
        /\ \A b \in {boardIds[1], boardIds[3]} :
            \A k \in DOMAIN jira.sprints[b] :
                jira.sprints[b][k].state = SprintState(validatedArgs)
                    => <<b, jira.sprints[b][k].id>> \in ReportedSprints
        /\ boardIds[2] \in BoardsNamed

\* The role-detail responses all resolved and the merge has run.
MergeDone ==
    /\ request.name \in {"jira_list_project_members", "jira_check_user_issues"}
    /\ pc \in {"check.search", "done"}
    /\ jira.roles # <<>>
    /\ 1 \in DOMAIN settled /\ settled[1].ok
    /\ \A k \in DOMAIN roleDetailsPromises :
        /\ roleDetailsPromises[k].call \in DOMAIN settled
        /\ settled[roleDetailsPromises[k].call].ok

\* Some merged member's display name is userName, both lower-cased.
LookupMatches ==
    \E i \in DOMAIN allMembers :
        toLowerCase(allMembers[i].displayName) = toLowerCase(validatedArgs.userName)

\* C8: once the merge has run, jira_check_user_issues takes the user as
\* found exactly when a merged display name equals userName after both are
\* lower-cased, and its report says "found" or "NOT a member" accordingly.
C8_CaseInsensitiveLookup ==
    (MergeDone /\ request.name = "jira_check_user_issues") =>
        /\ userFound <=> LookupMatches
        /\ (pc = "done" /\ ~result.isError) =>
            /\ Text.step1 = "found" <=> LookupMatches
            /\ Text.step1 = "NOT a member" <=> ~LookupMatches

C8_Witness ==
    /\ MergeDone /\ request.name = "jira_check_user_issues"
    /\ validatedArgs.userName = UserJD
    /\ \E i \in DOMAIN allMembers : allMembers[i].displayName = NameJd
    /\ \A i \in DOMAIN allMembers : allMembers[i].displayName # UserJD
    /\ pc = "done" /\ ~result.isError /\ Text.step1 = "found"

\* The roles, in role-map order, whose actor list holds the display name.
RolesOf(name) ==
    {i \in DOMAIN jira.roles :
        /\ jira.roles[i].isString
        /\ \E k \in DOMAIN jira.actors[RoleId(jira.roles[i].url)] :
            jira.actors[RoleId(jira.roles[i].url)][k].displayName = name}

\* C9: after the merge a member's roles are exactly the roles whose actor
\* list holds the display name, each once, in first-seen order, also when
\* the name occurs twice in one role's list.
C9_RolesWithoutDuplicates ==
    MergeDone =>
        \A i \in DOMAIN allMembers :
            LET roles == allMembers[i].roles
            IN /\ Range(roles) = {jira.roles[r].name : r \in RolesOf(allMembers[i].displayName)}
               /\ \A k, l \in DOMAIN roles : k # l => roles[k] # roles[l]
               /\ \A k, l \in DOMAIN roles :
                    k < l => \E r, q \in RolesOf(allMembers[i].displayName) :
                                r < q /\ jira.roles[r].name = roles[k] /\ jira.roles[q].name = roles[l]

\* The display names with the set of their roles: as merged, and as the
\* role map and the actor lists determine them.
MergedPairs ==
    {<<allMembers[i].displayName, Range(allMembers[i].roles)>> : i \in DOMAIN allMembers}
InstancePairs ==
    {<<n, {jira.roles[r].name : r \in RolesOf(n)}>> :
        n \in UNION {{jira.actors[id][k].displayName : k \in DOMAIN jira.actors[id]}
                     : id \in RoleIds}}

\* C10: whatever the order in which the role-detail responses arrive, the
\* merge ends with the same pairs of display name and role set: those the
\* role map and the actor lists determine.
C10_MergeOrderIndependent ==
    MergeDone =>
        MergedPairs = {pair \in InstancePairs : pair[1] # Undef /\ pair[2] # {}}

C10_Witness ==
    /\ MergeDone
    /\ Len(roleDetailsPromises) = 2
    /\ arrivals = <<1, roleDetailsPromises[2].call, roleDetailsPromises[1].call>>
    /\ \E i \in DOMAIN allMembers : Len(allMembers[i].roles) = 2
    /\ \E i \in DOMAIN allMembers : allMembers[i].roles = <<"Developers">>
    /\ \E i \in DOMAIN allMembers : allMembers[i].roles = <<"Administrators">>

\* The boards whose sprints were requested, in request order, and the
\* board-listing requests.
IsBoardSprintCall(call) == call.endpoint = BoardSprintEndpoint
SprintCallBoards ==
    [k \in DOMAIN SelectSeq(calls, IsBoardSprintCall) |-> SelectSeq(calls, IsBoardSprintCall)[k].arg1]
BoardListingCalls == {i \in DOMAIN calls : calls[i].endpoint = "/rest/agile/1.0/board"}

\* C11: jira_list_sprints given both boardId and projectKey works on the
\* board set {boardId}: no board-listing request is issued and the sprints
\* of exactly that one board are requested.
C11_BoardIdWins ==
    (/\ request.name = "jira_list_sprints"
     /\ Truthy(RawArguments.boardId) /\ Truthy(RawArguments.projectKey)
     /\ calls # <<>>) =>
        /\ boardIds = <<RawArguments.boardId>>
        /\ BoardListingCalls = {}
        /\ SprintCallBoards = <<RawArguments.boardId>>

C11_Witness ==
    /\ request.name = "jira_list_sprints"
    /\ RawArguments.boardId = Board1 /\ RawArguments.projectKey = KeyAB
    /\ pc = "done" /\ ~result.isError /\ Text.kind = "Sprints"
    /\ SprintCallBoards = <<Board1>>

\* C12: without boardId, jira_list_sprints requests the sprints of the
\* boards of the listing in listing order: with neither boardId nor
\* projectKey the first five boards and no more, with a projectKey every
\* board the project's listing returned.
C12_BoardTruncation ==
    (/\ request.name = "jira_list_sprints" /\ ~Truthy(RawArguments.boardId)
     /\ 1 \in DOMAIN settled /\ settled[1].ok) =>
        LET listed == IF Truthy(RawArguments.projectKey) THEN jira.projectBoards
                      ELSE IF Len(jira.allBoards) > 5 THEN SubSeq(jira.allBoards, 1, 5)
                      ELSE jira.allBoards
        IN /\ Len(SprintCallBoards) <= Len(listed)
           /\ SprintCallBoards = SubSeq(listed, 1, Len(SprintCallBoards))
           /\ pc \in {"sprints.issues", "done"} => SprintCallBoards = listed
           /\ ~Truthy(RawArguments.projectKey) => Len(SprintCallBoards) <= 5

C12_Witness ==
    /\ request.name = "jira_list_sprints"
    /\ ~Truthy(RawArguments.boardId) /\ ~Truthy(RawArguments.projectKey)
    /\ Len(jira.allBoards) = 6
    /\ pc = "done" /\ ~result.isError
    /\ SprintCallBoards = SubSeq(jira.allBoards, 1, 5)

\* The other half of C12 at work: a project with six boards, all requested.
C12_ProjectWitness ==
    /\ request.name = "jira_list_sprints"
    /\ ~Truthy(RawArguments.boardId) /\ Truthy(RawArguments.projectKey)
    /\ pc = "done" /\ ~result.isError
    /\ Len(SprintCallBoards) = 6 /\ SprintCallBoards = jira.projectBoards

\* Sprint id of board b is in the sequence, tagged with b.
Tagged(sprints, b, id) ==
    \E m \in DOMAIN sprints : sprints[m].id = id /\ sprints[m].boardId = b

\* C13: every sprint a board's resolved request returned is in the merged
\* collection (and, at the end, in the report's table) tagged with that
\* board's id, whichever other board's request failed, before or after.
C13_SprintCompleteness ==
    request.name = "jira_list_sprints" =>
        \A i \in DOMAIN settled :
            (IsBoardSprintCall(calls[i]) /\ settled[i].ok) =>
                LET b == calls[i].arg1
                    returned == SprintsInState(jira.sprints[b], calls[i].params.state)
                IN \A k \in DOMAIN returned :
                    /\ Tagged(allSprints, b, returned[k].id)
                    /\ (pc = "done" /\ ~result.isError /\ Text.kind = "Sprints")
                            => Tagged(Text.table, b, returned[k].id)

C13_Witness ==
    /\ request.name = "jira_list_sprints" /\ Len(boardIds) = 3
    /\ FetchOk(boardIds[1]) /\ FetchFailed(boardIds[2]) /\ FetchOk(boardIds[3])
    /\ pc = "done" /\ ~result.isError /\ Text.kind = "Sprints"
    /\ \E m \in DOMAIN Text.table : Text.table[m].boardId = boardIds[1]
    /\ \E m \in DOMAIN Text.table : Text.table[m].boardId = boardIds[3]

\* The display names of the actors of the k-th role.
NamesOfRole(k) ==
    {jira.actors[RoleId(jira.roles[k].url)][n].displayName
        : n \in DOMAIN jira.actors[RoleId(jira.roles[k].url)]}

\* jira_list_project_members has run to its end, every request resolved,
\* against two roles of two actors each that share exactly one actor.
TwoRolesOneShared ==
    /\ request.name = "jira_list_project_members"
    /\ MergeDone /\ pc = "done"
    /\ Len(jira.roles) = 2 /\ jira.roles[1].isString /\ jira.roles[2].isString
    /\ \A k \in 1..2 : /\ Len(jira.actors[RoleId(jira.roles[k].url)]) = 2
                       /\ Cardinality(NamesOfRole(k)) = 2
                       /\ Undef \notin NamesOfRole(k)
    /\ Cardinality(NamesOfRole(1) \cap NamesOfRole(2)) = 1

\* The row of the report for a display name has exactly these roles.
RowHasRoles(name, roles) ==
    \E m \in DOMAIN Text.rows : Text.rows[m].displayName = name /\ Text.rows[m].roles = roles

\* C14 as stated: two roles sharing one actor, each with one actor of its
\* own, give a report of exactly 2 members, the shared one with 2 roles.
C14_TwoMembers ==
    TwoRolesOneShared =>
        /\ ~result.isError
        /\ Len(Text.rows) = 2
        /\ \A n \in NamesOfRole(1) \cap NamesOfRole(2) :
                RowHasRoles(n, <<jira.roles[1].name, jira.roles[2].name>>)

\* C14, amended: the report has exactly 3 members: the shared actor with
\* both roles, and the two other actors with the one role each is in.
C14_ThreeMembers ==
    TwoRolesOneShared =>
        /\ ~result.isError
        /\ Len(Text.rows) = 3
        /\ \A n \in NamesOfRole(1) \cap NamesOfRole(2) :
                RowHasRoles(n, <<jira.roles[1].name, jira.roles[2].name>>)
        /\ \A k \in 1..2 : \A n \in NamesOfRole(k) \ NamesOfRole(3 - k) :
                RowHasRoles(n, <<jira.roles[k].name>>)

C14_Witness ==
    /\ TwoRolesOneShared
    /\ ~result.isError
    /\ RowHasRoles(NameJd, <<"Administrators", "Developers">>)
    /\ RowHasRoles(NameAl, <<"Developers">>)
    /\ Len(Text.rows) = 3

\* The display name, as stored, of the first merged record that matches
\* userName once both are lower-cased.
StoredName ==
    allMembers[CHOOSE i \in DOMAIN allMembers :
                /\ toLowerCase(allMembers[i].displayName) = toLowerCase(validatedArgs.userName)
                /\ \A j \in DOMAIN allMembers :
                    toLowerCase(allMembers[j].displayName) = toLowerCase(validatedArgs.userName)
                        => i <= j].displayName

IssueSearchCalls == {i \in DOMAIN calls : calls[i].endpoint = "/rest/api/3/search"}

\* C16: when jira_check_user_issues has found the user, the issue search
\* asks for the assignee equal to the stored display name, ordered by
\* creation date descending, 50 results, with the six listed fields.
C16_SearchByStoredName ==
    (request.name = "jira_check_user_issues" /\ userFound) =>
        \A i \in IssueSearchCalls :
            /\ calls[i].params.jql.project = validatedArgs.projectKey
            /\ calls[i].params.jql.op = "="
            /\ calls[i].params.jql.assignee = StoredName
            /\ calls[i].params.jql.orderBy = "created DESC"
            /\ calls[i].params.maxResults = 50
            /\ calls[i].params.fields = "summary,status,assignee,created,issuetype,priority"

\* What the code does instead: the assignee of the query is userName as typed.
C16_SearchByTypedName ==
    (request.name = "jira_check_user_issues" /\ userFound) =>
        \A i \in IssueSearchCalls :
            /\ calls[i].params.jql.project = validatedArgs.projectKey
            /\ calls[i].params.jql.op = "="
            /\ calls[i].params.jql.assignee = validatedArgs.userName
            /\ calls[i].params.jql.orderBy = "created DESC"
            /\ calls[i].params.maxResults = 50
            /\ calls[i].params.fields = "summary,status,assignee,created,issuetype,priority"

\* The sprint-attach requests that were rejected.
FailedSprintAttach ==
    {i \in DOMAIN settled :
        /\ calls[i].method = "POST"
        /\ calls[i].endpoint = "/rest/agile/1.0/sprint/{sprintId}/issue"
        /\ ~settled[i].ok}

\* C17: in jira_create_issue a rejected sprint attach is followed by the
\* detail fetch of the created issue and by nothing else (no delete, no
\* compensating request), and when that fetch resolves the result is the
\* success report, isError = false.
C17_SprintAttachFailure ==
    request.name = "jira_create_issue" =>
        \A i \in FailedSprintAttach :
            /\ i > 1 /\ calls[i - 1].method = "POST" /\ calls[i - 1].endpoint = "/rest/api/3/issue"
            /\ settled[i - 1].ok
            /\ Len(calls) = i + 1
            /\ calls[i + 1] = IssueGetCall(jira.created.key)
            /\ (pc = "done" /\ settled[i + 1].ok) =>
                    /\ ~result.isError
                    /\ Text.kind = "# Issue Created Successfully"
                    /\ Text.key = jira.created.key

C17_Witness ==
    /\ request.name = "jira_create_issue"
    /\ FailedSprintAttach # {}
    /\ pc = "done" /\ ~result.isError /\ Text.kind = "# Issue Created Successfully"
    /\ \E k \in DOMAIN console : console[k].warn = "Could not add issue to sprint:"

\* The positions, in calls, of the assignee and of the reporter lookup
\* (0: the name was not given), and of the POST that follows them.
AssigneeLookup == IF Truthy(validatedArgs.assigneeName) THEN 1 ELSE 0
ReporterLookup == IF Truthy(validatedArgs.reporterName) THEN AssigneeLookup + 1 ELSE 0
IssuePost == (IF ReporterLookup # 0 THEN ReporterLookup ELSE AssigneeLookup) + 1
IssuePostCalls ==
    {i \in DOMAIN calls : calls[i].method = "POST" /\ calls[i].endpoint = "/rest/api/3/issue"}

\* The lookup at position i for name resolved with at least one candidate.
LookupGave(i, name) ==
    /\ i # 0 /\ settled[i].ok
    /\ name \in DOMAIN jira.users /\ jira.users[name] # <<>>

\* The field of the payload is the account id of a candidate for name.
CandidateId(id, name) ==
    \E k \in DOMAIN jira.users[name] : jira.users[name][k].accountId = id

\* C18: in jira_create_issue, whatever the lookups of assignee and
\* reporter answer, the issue POST is issued exactly once after them, and
\* its payload carries the account id of a candidate for each lookup that
\* resolved with candidates and no field for a lookup that failed or
\* resolved with none.
C18_LookupFailure ==
    (/\ request.name = "jira_create_issue" /\ calls # <<>>
     /\ AssigneeLookup # 0 => AssigneeLookup \in DOMAIN settled
     /\ ReporterLookup # 0 => ReporterLookup \in DOMAIN settled) =>
        /\ IssuePostCalls = {IssuePost}
        /\ LET fields == calls[IssuePost].params
           IN /\ fields.project = validatedArgs.projectKey
              /\ fields.summary = validatedArgs.summary
              /\ IF LookupGave(AssigneeLookup, validatedArgs.assigneeName)
                 THEN CandidateId(fields.assignee, validatedArgs.assigneeName)
                 ELSE fields.assignee = Undef
              /\ IF LookupGave(ReporterLookup, validatedArgs.reporterName)
                 THEN CandidateId(fields.reporter, validatedArgs.reporterName)
                 ELSE fields.reporter = Undef

C18_Witness ==
    /\ request.name = "jira_create_issue"
    /\ AssigneeLookup = 1 /\ ReporterLookup = 2
    /\ 2 \in DOMAIN settled /\ ~settled[1].ok /\ settled[2].ok
    /\ IssuePostCalls = {3}
    /\ calls[3].params.assignee = Undef /\ calls[3].params.reporter # Undef
    /\ pc = "done" /\ ~result.isError

\* The time a sprint is sorted by: its start date, zero when it has none.
SortKey(sprint) == IF sprint.startDate = Undef THEN 0 ELSE DateTime(sprint.startDate)

Descending(sprints) ==
    \A k, l \in DOMAIN sprints : k < l => SortKey(sprints[k]) >= SortKey(sprints[l])

IsSprintIssuesCall(call) == call.endpoint = "/rest/agile/1.0/sprint/{id}/issue"

\* C19: jira_list_sprints reports the merged sprints by start date, latest
\* first, a sprint without start date after every sprint that has one; the
\* table, the detail sections and the issue requests follow that one order.
C19_SprintOrder ==
    (request.name = "jira_list_sprints" /\ pc \in {"sprints.issues", "done"}
     /\ allSprints # <<>>) =>
        /\ Descending(allSprints)
        /\ \A k, l \in DOMAIN allSprints :
            (allSprints[k].startDate = Undef /\ allSprints[l].startDate # Undef) => l < k
        /\ formattedResponse.table = allSprints
        /\ \A k \in DOMAIN formattedResponse.details :
            formattedResponse.details[k].sprint = allSprints[k].id
        /\ \A k \in DOMAIN SelectSeq(calls, IsSprintIssuesCall) :
            SelectSeq(calls, IsSprintIssuesCall)[k].arg1 = allSprints[k].id
        /\ pc = "done" =>
            /\ Text.table = allSprints
            /\ Len(Text.details) = Len(allSprints)
            /\ Len(SelectSeq(calls, IsSprintIssuesCall)) = Len(allSprints)

\* Start dates [none, 2024-01-10] from board 1 and [2024-03-01] from board
\* 3 are reported as [2024-03-01, 2024-01-10, none].
C19_Witness ==
    /\ request.name = "jira_list_sprints" /\ pc = "done" /\ ~result.isError
    /\ Text.kind = "Sprints"
    /\ [k \in DOMAIN jira.sprints[Board1] |-> jira.sprints[Board1][k].startDate]
            = <<Undef, <<50, 48, 50, 52, 48, 49, 49, 48>>>>
    /\ [k \in DOMAIN Text.table |-> Text.table[k].startDate]
            = <<<<50, 48, 50, 52, 48, 51, 48, 49>>, <<50, 48, 50, 52, 48, 49, 49, 48>>, Undef>>
    /\ [k \in DOMAIN Text.details |-> Text.details[k].boardId] = <<Board3, Board1, Board1>>

\* C20: in jira_list_sprints the sprint requests of the resolved boards are
\* issued together: while the handler waits for sprint responses, the
\* request of every resolved board has been issued.
C20_BoardRequestsTogether ==
    (request.name = "jira_list_sprints" /\ pc = "sprints.sprint") =>
        SprintCallBoards = boardIds

\* What the code does instead: a board's request is issued once the
\* request of the board before it has been answered, so that at most one
\* request is in flight.
C20_OneBoardAtATime ==
    request.name = "jira_list_sprints" =>
        /\ Cardinality(pending) <= 1
        /\ pc = "sprints.sprint" =>
            /\ SprintCallBoards = SubSeq(boardIds, 1, cursor)
            /\ \A k \in 1..(cursor - 1) : FetchOk(boardIds[k]) \/ FetchFailed(boardIds[k])

\* What invocation L's own answered board requests returned, in request order,
\* up to its n-th request.
RECURSIVE Collected(_, _)
Collected(L, n) ==
    IF n = 0 THEN <<>>
    ELSE Collected(L, n - 1)
         \o (IF n \in DOMAIN L.settled /\ IsBoardSprintCall(L.calls[n]) /\ L.settled[n].ok
             THEN WithBoardInfo(SprintsInState(jira.sprints[L.calls[n].arg1],
                                               L.calls[n].params.state),
                                L.calls[n].arg1)
             ELSE <<>>)

\* The member map of invocation L is the merge of L's own role-detail responses.
MembersAlone(L) ==
    (/\ L.request.name \in {"jira_list_project_members", "jira_check_user_issues"}
     /\ L.pc \in {"check.search", "done"}
     /\ ~L.result.isError
     /\ L.roleDetailsPromises # <<>>) =>
        LET own == MergeRoleDetails(<<>>,
                        PromiseAll(L.roleDetailsPromises, L.settled, L.arrivals))
        IN /\ \A k \in DOMAIN L.roleDetailsPromises :
                L.settled[L.roleDetailsPromises[k].call].data
                    = jira.actors[L.calls[L.roleDetailsPromises[k].call].arg2]
           /\ L.allMembers = own
           /\ (L.request.name = "jira_list_project_members" /\ L.pc = "done")
                => L.result.content[1].text.rows = own

\* The sprint list of invocation L holds what L's own board requests returned.
SprintsAlone(L) ==
    L.request.name = "jira_list_sprints" =>
        LET own == Collected(L, Len(L.calls))
            sections == L.formattedResponse.details
        IN CASE L.pc = "sprints.sprint" -> L.allSprints = own
             [] L.pc = "sprints.issues" ->
                    /\ L.allSprints = SortSprints(own)
                    /\ L.formattedResponse.table = SortSprints(own)
                    /\ \A k \in DOMAIN sections : sections[k].sprint = SortSprints(own)[k].id
             [] L.pc = "done" /\ ~L.result.isError /\ L.result.content[1].text.kind = "Sprints" ->
                    /\ own # <<>>
                    /\ L.result.content[1].text.table = SortSprints(own)
                    /\ Len(L.result.content[1].text.details) = Len(own)
                    /\ \A k \in DOMAIN own :
                        L.result.content[1].text.details[k].sprint = SortSprints(own)[k].id
             [] OTHER -> TRUE

Independent(L) ==
    /\ DOMAIN L.settled \subseteq DOMAIN L.calls
    /\ MembersAlone(L)
    /\ SprintsAlone(L)

\* C15: with two invocations in flight and their steps interleaved in any
\* order, the member map, the sprint list and the result of each invocation
\* are those its own upstream responses give when it runs alone.
C15_InvocationIndependence ==
    parked.pc # "none" => Independent(Locals) /\ Independent(parked)

\* One listing has returned its two active sprints while another listing,
\* asked for all states, is suspended in its board loop with a request
\* pending and two sprints of its own collected.
C15_Witness ==
    /\ request.name = "jira_list_sprints" /\ pc = "done" /\ ~result.isError
    /\ Text.kind = "Sprints" /\ Len(Text.table) = 2
    /\ parked.request.name = "jira_list_sprints" /\ parked.pc = "sprints.sprint"
    /\ parked.pending # {} /\ Len(parked.allSprints) = 2
    /\ parked.request.args.state = StateAll
    /\ Text.table # parked.allSprints

\* The index in calls of the request for the issues of the k-th listed sprint.
IssueCallOf(k) ==
    CHOOSE i \in DOMAIN calls :
        /\ IsSprintIssuesCall(calls[i])
        /\ Cardinality({j \in 1..i : IsSprintIssuesCall(calls[j])}) = k

CouldNotFetch == "Could not fetch issues for this sprint."

\* C21: in jira_list_sprints a failed issue fetch is contained to its sprint:
\* once the detail loop has started the call ends without error, with one
\* issue request and one section per listed sprint, and a section reads
\* "Could not fetch issues for this sprint." exactly when its own request failed.
C21_IssueFailureContained ==
    (/\ request.name = "jira_list_sprints" /\ pc = "done"
     /\ \E i \in DOMAIN calls : IsSprintIssuesCall(calls[i])) =>
        /\ ~result.isError
        /\ Text.kind = "Sprints"
        /\ Len(Text.details) = Len(allSprints)
        /\ Len(SelectSeq(calls, IsSprintIssuesCall)) = Len(allSprints)
        /\ \A k \in DOMAIN allSprints :
            /\ calls[IssueCallOf(k)].arg1 = allSprints[k].id
            /\ IssueCallOf(k) \in DOMAIN settled
            /\ Text.details[k].sprint = allSprints[k].id
            /\ (Text.details[k].issues = CouldNotFetch) <=> ~settled[IssueCallOf(k)].ok

\* Three sprints are listed and only the fetch for the middle one failed.
C21_Witness ==
    /\ request.name = "jira_list_sprints" /\ pc = "done" /\ ~result.isError
    /\ Text.kind = "Sprints" /\ Len(Text.details) = 3
    /\ Text.details[1].issues # CouldNotFetch
    /\ Text.details[2].issues = CouldNotFetch
    /\ Text.details[3].issues # CouldNotFetch
    /\ ~settled[IssueCallOf(2)].ok

\* The membership check ended with the user not among the members.
NotAMember ==
    /\ request.name = "jira_check_user_issues" /\ pc = "done" /\ ~result.isError
    /\ Text.kind = "# Checking User" /\ Text.step1 = "NOT a member"

UserTyped(m) == m.type = "atlassian-user-role-actor"
OrgNamed(m) == Includes(m.displayName, ForJira) \/ Includes(m.displayName, Atlassian)

\* The rows of the members at the positions in keep, in map order.
RECURSIVE RowsOf(_, _, _)
RowsOf(members, keep, k) ==
    IF k > Len(members) THEN <<>>
    ELSE (IF k \in keep
          THEN <<[displayName |-> members[k].displayName, roles |-> members[k].roles]>>
          ELSE <<>>)
         \o RowsOf(members, keep, k + 1)

\* C22 as stated: not found means no issue search, and the listing leaves out
\* exactly the members whose type marks them and whose name does NOT contain
\* a marker substring. The type that "marks" is read both ways (the user-actor
\* type the code tests for, or any other type); the statement counts as
\* holding if it holds under either reading.
C22_ListedUnlessUnnamed ==
    NotAMember =>
        /\ IssueSearchCalls = {}
        /\ \/ Text.available = RowsOf(allMembers,
                    {k \in DOMAIN allMembers :
                        ~(UserTyped(allMembers[k]) /\ ~OrgNamed(allMembers[k]))}, 1)
           \/ Text.available = RowsOf(allMembers,
                    {k \in DOMAIN allMembers :
                        ~(~UserTyped(allMembers[k]) /\ ~OrgNamed(allMembers[k]))}, 1)

\* C22 amended: not found means no issue search, and the listing leaves out
\* exactly the user actors whose name contains "for Jira" or "Atlassian";
\* every other member is listed with its roles, in map order.
C22_ListedUnlessAppAccount ==
    NotAMember =>
        /\ IssueSearchCalls = {}
        /\ Text.available = RowsOf(allMembers,
                {k \in DOMAIN allMembers :
                    ~(UserTyped(allMembers[k]) /\ OrgNamed(allMembers[k]))}, 1)

\* The map holds a person, two app accounts, a group named "Atlassian" and
\* another group; the two app accounts are left out of the listing.
C22_Witness ==
    /\ NotAMember
    /\ Len(allMembers) = 5
    /\ [k \in DOMAIN Text.available |-> Text.available[k].displayName]
            = <<NameJd, Atlassian, NameAl>>
    /\ \E k \in DOMAIN allMembers :
        allMembers[k].displayName = NameForJira /\ Len(allMembers[k].roles) = 2

\* The account the resolution rule gives for name: the first candidate whose
\* display name equals name without regard to case, else the first
\* candidate, else none.
Resolved(name) ==
    LET candidates == IF name \in DOMAIN jira.users THEN jira.users[name] ELSE <<>>
        exact == {k \in DOMAIN candidates :
                    toLowerCase(candidates[k].displayName) = toLowerCase(name)}
    IN IF candidates = <<>> THEN Undef
       ELSE IF exact = {} THEN candidates[1].accountId
       ELSE candidates[CHOOSE k \in exact : \A j \in exact : k <= j].accountId

\* C23: in jira_create_issue the assignee and the reporter of the posted
\* payload follow one rule: for a lookup that was answered, the first
\* candidate matching the name case-insensitively, else the first candidate,
\* else no field.
C23_SameResolutionRule ==
    (request.name = "jira_create_issue" /\ IssuePost \in DOMAIN calls) =>
        LET fields == calls[IssuePost].params
        IN /\ (AssigneeLookup # 0 /\ settled[AssigneeLookup].ok)
                => fields.assignee = Resolved(validatedArgs.assigneeName)
           /\ (ReporterLookup # 0 /\ settled[ReporterLookup].ok)
                => fields.reporter = Resolved(validatedArgs.reporterName)

\* The assignee "Jd" resolves to "jd", the second of three candidates, and
\* the reporter "Bo", matched by nobody, to the first candidate.
C23_Witness ==
    /\ request.name = "jira_create_issue" /\ IssuePost \in DOMAIN calls
    /\ validatedArgs.assigneeName = NameJd /\ validatedArgs.reporterName = NameBo
    /\ settled[1].ok /\ settled[2].ok
    /\ Len(jira.users[NameJd]) = 3
    /\ calls[IssuePost].params.assignee = <<97, 49>>
    /\ calls[IssuePost].params.reporter = <<97, 48>>

\* The lookup of "Al" is answered with no candidate and the field stays unset.
C23_NoCandidateWitness ==
    /\ request.name = "jira_create_issue" /\ IssuePost \in DOMAIN calls
    /\ validatedArgs.assigneeName = NameAl /\ settled[1].ok
    /\ NameAl \in DOMAIN jira.users /\ jira.users[NameAl] = <<>>
    /\ calls[IssuePost].params.assignee = Undef

\* The board listing was requested and answered with no board.
EmptyBoardListing ==
    /\ request.name = "jira_list_sprints"
    /\ 1 \in DOMAIN settled /\ settled[1].ok
    /\ calls[1].endpoint = "/rest/agile/1.0/board"
    /\ (IF calls[1].params.projectKeyOrId # Undef THEN jira.projectBoards ELSE jira.allBoards)
            = <<>>

\* C24: in jira_list_sprints, once the board listing (of the project or of
\* the instance) is answered with no board, the call has returned "No Boards
\* Found" without error and the board listing is the only request issued.
C24_NoBoardsFound ==
    EmptyBoardListing =>
        /\ pc = "done" /\ ~result.isError
        /\ Text.kind = "# No Boards Found"
        /\ Text.projectKey = calls[1].params.projectKeyOrId
        /\ Len(calls) = 1
        /\ pending = {}

\* The listing of project AB is answered with no board.
C24_Witness ==
    /\ EmptyBoardListing /\ pc = "done"
    /\ calls[1].params.projectKeyOrId = KeyAB
    /\ jira.allBoards # <<>>
    /\ Text.kind = "# No Boards Found"

\* The unfiltered listing is answered with no board.
C24_UnfilteredWitness ==
    /\ EmptyBoardListing /\ pc = "done"
    /\ calls[1].params.projectKeyOrId = Undef
    /\ Text.kind = "# No Boards Found" /\ Text.projectKey = Undef

\* Every board of the listing has been asked for its sprints and has
\* answered, and what the boards returned, put together, is empty.
NothingCollected ==
    /\ request.name = "jira_list_sprints" /\ pc = "done"
    /\ \E i \in DOMAIN calls : IsBoardSprintCall(calls[i])
    /\ Collected(Locals, Len(calls)) = <<>>

\* C25: in jira_list_sprints, when the sprints of all boards together are
\* none, the call returns "No Sprints Found" without error, naming the state
\* unless it is "all" and the board id, or else the project key, when given;
\* no sprint-issue request is issued.
C25_NoSprintsFound ==
    NothingCollected =>
        LET a == validatedArgs
            state == IF a.state = Undef THEN StateActive ELSE a.state
        IN /\ ~result.isError
           /\ Text.kind = "# No Sprints Found"
           /\ Text.state = (IF state = StateAll THEN Undef ELSE state)
           /\ Text.boardId = a.boardId
           /\ Text.projectKey = (IF a.boardId = Undef THEN a.projectKey ELSE Undef)
           /\ \A i \in DOMAIN calls : ~IsSprintIssuesCall(calls[i])

\* Board 1, named together with project AB and the state closed, has no
\* sprint: the result names the state and the board.
C25_Witness ==
    /\ NothingCollected
    /\ jira = NoSprints
    /\ validatedArgs.boardId = Board1 /\ validatedArgs.projectKey = KeyAB
    /\ Text.state = StateClosed /\ Text.boardId = Board1 /\ Text.projectKey = Undef

\* The boards of project AB have no sprint in any state: the result names
\* the project and no state.
C25_ProjectWitness ==
    /\ NothingCollected
    /\ jira = NoSprints
    /\ validatedArgs.boardId = Undef /\ validatedArgs.state = StateAll
    /\ Text.state = Undef /\ Text.boardId = Undef /\ Text.projectKey = KeyAB

IsSprintAttach(call) ==
    call.method = "POST" /\ call.endpoint = "/rest/agile/1.0/sprint/{sprintId}/issue"

\* The issue POST succeeded and the GET of the created issue failed.
CreatedButNotRead ==
    /\ request.name = "jira_create_issue"
    /\ IssuePost \in DOMAIN settled /\ settled[IssuePost].ok
    /\ \E i \in DOMAIN settled : calls[i] = IssueGetCall(jira.created.key) /\ ~settled[i].ok

\* C26: in jira_create_issue, when the issue POST has succeeded and the GET
\* of the created issue fails, the call returns an error although the issue
\* was created upstream; the failed GET is the last request issued, and the
\* only requests after the POST are the sprint attach and that GET.
C26_CreatedButReportedFailed ==
    CreatedButNotRead =>
        /\ pc = "done" /\ result.isError
        /\ createdIssue = jira.created
        /\ calls[Len(calls)] = IssueGetCall(jira.created.key)
        /\ \A i \in DOMAIN calls :
            i > IssuePost => (IsSprintAttach(calls[i]) \/ i = Len(calls))

\* The issue was created and attached to sprint 7, the GET failed, and the
\* call reports an error.
C26_Witness ==
    /\ CreatedButNotRead /\ pc = "done" /\ result.isError
    /\ \E i \in DOMAIN settled : IsSprintAttach(calls[i]) /\ settled[i].ok
    /\ createdIssue.id # Undef

\* The board sprint requests of the call, by index.
SprintFetches == {i \in DOMAIN calls : IsBoardSprintCall(calls[i])}

\* The call is over, every board was asked, and every fetch failed.
AllFetchesFailed ==
    /\ request.name = "jira_list_sprints" /\ pc = "done"
    /\ SprintFetches # {}
    /\ \A i \in SprintFetches : i \in DOMAIN settled /\ ~settled[i].ok

\* The call is over, every board was asked and answered, with no sprint.
GenuinelyNoSprints ==
    /\ request.name = "jira_list_sprints" /\ pc = "done"
    /\ SprintFetches # {}
    /\ \A i \in SprintFetches :
        /\ i \in DOMAIN settled /\ settled[i].ok
        /\ SprintsInState(jira.sprints[calls[i].arg1], calls[i].params.state) = <<>>

\* The result of a listing that found no sprint, from the arguments alone.
NoSprintsResult ==
    LET a == validatedArgs
        state == IF a.state = Undef THEN StateActive ELSE a.state
    IN [content |-> <<[type |-> "text",
                       text |-> [kind |-> "# No Sprints Found",
                                 state |-> IF state = StateAll THEN Undef ELSE state,
                                 boardId |-> a.boardId,
                                 projectKey |-> IF a.boardId = Undef THEN a.projectKey
                                                ELSE Undef]]>>,
        isError |-> FALSE]

\* C27: in jira_list_sprints, when the sprint fetch of every board failed
\* the returned result is, field for field, the "No Sprints Found" result
\* without error that is returned when every board answered with no sprint:
\* it is determined by the arguments alone in both situations.
C27_FailuresLookEmpty ==
    (AllFetchesFailed \/ GenuinelyNoSprints) => result = NoSprintsResult

\* The three boards of project AB hold sprints in the state asked for, every
\* fetch failed, and the result says no sprints were found.
C27_Witness ==
    /\ AllFetchesFailed
    /\ Cardinality(SprintFetches) = 3
    /\ \E i \in SprintFetches :
        SprintsInState(jira.sprints[calls[i].arg1], calls[i].params.state) # <<>>
    /\ result = NoSprintsResult

\* The same request against boards without sprints gives that result too.
C27_GenuineWitness ==
    /\ GenuinelyNoSprints
    /\ Cardinality(SprintFetches) = 3
    /\ result = NoSprintsResult

\* The display names the answered roles hold, as they are spelled.
SpelledNames ==
    {n \in UNION {{jira.actors[id][k].displayName : k \in DOMAIN jira.actors[id]}
                  : id \in RoleIds} : n # Undef /\ RolesOf(n) # {}}

\* The records whose name is userName up to letter case, by position.
CaseVariants ==
    {i \in DOMAIN allMembers :
        toLowerCase(allMembers[i].displayName) = toLowerCase(validatedArgs.userName)}

\* C28: the member map is keyed by the display name as spelled: every
\* spelling is one record of its own, holding the roles of that spelling
\* only; and a found user is reported with the roles of the first record
\* whose name matches without regard to case, not with those of all variants.
C28_KeyedBySpelling ==
    MergeDone =>
        /\ \A n \in SpelledNames :
            /\ Cardinality({i \in DOMAIN allMembers : allMembers[i].displayName = n}) = 1
            /\ \A i \in DOMAIN allMembers :
                allMembers[i].displayName = n =>
                    Range(allMembers[i].roles) = {jira.roles[r].name : r \in RolesOf(n)}
        /\ Len(allMembers) = Cardinality(SpelledNames)
        /\ (request.name = "jira_check_user_issues" /\ userFound) =>
            /\ CaseVariants # {}
            /\ formattedResponse.roles
                = allMembers[CHOOSE i \in CaseVariants : \A j \in CaseVariants : i <= j].roles
            /\ (pc = "done" /\ ~result.isError) => Text.roles = formattedResponse.roles

\* "Jd" and "jd" are two records with different roles; the user "JD" is
\* found and reported with the roles of the first of the two only.
C28_Witness ==
    /\ MergeDone /\ request.name = "jira_check_user_issues" /\ userFound
    /\ validatedArgs.userName = UserJD
    /\ pc = "done" /\ ~result.isError
    /\ Cardinality(CaseVariants) = 2
    /\ \E i, j \in CaseVariants :
        /\ i < j
        /\ Range(allMembers[i].roles) # Range(allMembers[j].roles)
        /\ Text.roles = allMembers[i].roles
        /\ Text.roles # allMembers[j].roles

IsUserSearch(call, name) ==
    call.endpoint = "/rest/api/3/user/search" /\ call.params.query = name

SprintAttachCalls == {i \in DOMAIN calls : IsSprintAttach(calls[i])}

\* C29: in jira_create_issue the requests follow one order: the assignee
\* lookup, then (once it is answered) the reporter lookup, then (once both
\* are answered) the issue POST; the sprint attach is issued at most once,
\* right after a POST that succeeded and returned an id, and only when a
\* sprintId was given.
C29_CallOrder ==
    request.name = "jira_create_issue" =>
        /\ \A i \in DOMAIN calls :
            /\ i = AssigneeLookup => IsUserSearch(calls[i], validatedArgs.assigneeName)
            /\ i = ReporterLookup =>
                /\ IsUserSearch(calls[i], validatedArgs.reporterName)
                /\ AssigneeLookup # 0 => AssigneeLookup \in DOMAIN settled
            /\ (calls[i].method = "POST" /\ calls[i].endpoint = "/rest/api/3/issue") =>
                /\ i = IssuePost
                /\ \A j \in 1..(i - 1) : j \in DOMAIN settled
        /\ Cardinality(SprintAttachCalls) <= 1
        /\ \A i \in SprintAttachCalls :
            /\ i = IssuePost + 1
            /\ IssuePost \in DOMAIN settled /\ settled[IssuePost].ok
            /\ createdIssue.id # Undef
            /\ calls[i].params.issues = <<createdIssue.id>>
            /\ validatedArgs.sprintId # Undef
            /\ calls[i].arg1 = validatedArgs.sprintId
        /\ (IssuePost \in DOMAIN settled /\ settled[IssuePost].ok
            /\ validatedArgs.sprintId # Undef /\ jira.created.id # Undef)
                => SprintAttachCalls = {IssuePost + 1}

\* Assignee and reporter were looked up, the first lookup failed, the POST
\* succeeded and the attach to sprint 7 is the fourth request.
C29_Witness ==
    /\ request.name = "jira_create_issue" /\ pc = "done"
    /\ AssigneeLookup = 1 /\ ReporterLookup = 2 /\ IssuePost = 3
    /\ SprintAttachCalls = {4}
    /\ ~settled[1].ok /\ settled[2].ok /\ settled[3].ok

\* The POST succeeded without returning an id: no attach although a sprint
\* was named.
C29_NoIdWitness ==
    /\ request.name = "jira_create_issue" /\ pc = "done"
    /\ IssuePost \in DOMAIN settled /\ settled[IssuePost].ok
    /\ validatedArgs.sprintId # Undef /\ jira.created.id = Undef
    /\ SprintAttachCalls = {}

\* The credential is among the arguments as an empty or whitespace-only
\* string, and the environment holds a usable default for it.
BlankOverDefault(f) ==
    /\ RawArguments[f] # Undef
    /\ Trim(RawArguments[f]) = <<>>
    /\ env[f] # Undef /\ Trim(env[f]) # <<>>

\* C30: for every tool, a credential supplied as an empty or whitespace-only
\* string fails the schema validation although the environment holds a
\* default for it: the dispatch ends there with isError and that field's
\* message among the failures, and no upstream call is issued. A credential
\* that is not supplied at all takes the default through the validation.
C30_BlankCredentialRejected ==
    /\ (Registered /\ \E f \in CredFields : BlankOverDefault(f)) =>
        /\ pc \in {"start", "validate", "done"}
        /\ "handler" \notin ran
        /\ calls = <<>>
        /\ pc = "done" =>
            /\ result.isError
            /\ Text.kind = "Error: "
            /\ Text.message \in RawSchemaErrors
            /\ \A f \in CredFields : BlankOverDefault(f) => CredentialMessage(f) \in RawSchemaErrors
    /\ (Registered /\ pc \in {"credentials", "handler"}) =>
        \A f \in CredFields :
            validatedArgs[f] = (IF RawArguments[f] = Undef THEN env[f] ELSE RawArguments[f])

\* jira_list_projects is called with the host given as " " while every
\* credential has a default: the call ends with the host message.
C30_Witness ==
    /\ request.hasParams /\ request.name = "jira_list_projects"
    /\ RawArguments.jiraHost = <<32>> /\ env = [f \in CredFields |-> FromEnv]
    /\ RawArguments.loginName = Undef /\ RawArguments.loginToken = Undef
    /\ pc = "done" /\ result.isError /\ calls = <<>>
    /\ Text.message = CredentialMessage("jiraHost")

\* A token that is not supplied takes the default through the validation.
C30_DefaultWitness ==
    /\ Registered /\ pc = "credentials"
    /\ RawArguments.loginToken = Undef /\ env.loginToken = FromEnv
    /\ validatedArgs.loginToken = FromEnv

====
